---- MODULE Spec2Model ----
(***************************************************************************)
(* RepoMind: the cache-provider abstraction (RedisProvider and its          *)
(* factory), the caching helpers built on it, the analytics layer, and the  *)
(* AI-provider abstraction (its factory, the OpenAI-compatible and the      *)
(* cluster-hosted backends).                                                *)
(*                                                                          *)
(* Text is modelled as a sequence of one-character strings, so that         *)
(* includes, startsWith, trim, toLowerCase, JSON.stringify and JSON.parse   *)
(* are computed character by character as the code computes them.           *)
(***************************************************************************)
EXTENDS Integers, Sequences, FiniteSets, TLC

VARIABLES
    redisUrl,          \* the connection string handed to new RedisProvider(redisUrl)
    clientMode,        \* which ioredis client the constructor built: "none", "cluster", "standalone"
    db,                \* the backend store: string keys, sets and hashes
    ret,               \* what the call that completed in the latest step delivered to its caller
    env,               \* process.env: the configuration variables the factory reads
    providerInstance,  \* the module-level singleton of the cache-provider factory
    now,               \* Date.now()
    calls,             \* the trackEvent / getAnalyticsData calls in flight, by slot
    build,             \* which copies of the duplicated modules the deployment is built from
    aiProviderInstance, \* the module-level singleton of the AI-provider factory
    aiCall             \* the call on the AI provider in flight

vars == <<redisUrl, clientMode, db, ret, env, providerInstance, now, calls,
          build, aiProviderInstance, aiCall>>


----------------------------------------------------------------------------
(* Text primitives (String.prototype)                                      *)

\* s.includes(sub)
Includes(s, sub) ==
    \E i \in 1..(Len(s) - Len(sub) + 1) : SubSeq(s, i, i + Len(sub) - 1) = sub

\* s.startsWith(p)
StartsWith(s, p) ==
    /\ Len(s) >= Len(p)
    /\ SubSeq(s, 1, Len(p)) = p

\* the index of the first character of s that belongs to cs, or Len(s) + 1
FirstIn(s, cs) ==
    IF \E i \in 1..Len(s) : s[i] \in cs
    THEN CHOOSE i \in 1..Len(s) : s[i] \in cs /\ \A j \in 1..(i - 1) : s[j] \notin cs
    ELSE Len(s) + 1

\* the index of the last character of s that belongs to cs, or 0
LastIn(s, cs) ==
    IF \E i \in 1..Len(s) : s[i] \in cs
    THEN CHOOSE i \in 1..Len(s) : s[i] \in cs /\ \A j \in (i + 1)..Len(s) : s[j] \notin cs
    ELSE 0

Digits == {"0", "1", "2", "3", "4", "5", "6", "7", "8", "9"}

----------------------------------------------------------------------------
(* RedisProvider: the choice between a cluster and a standalone client     *)

S_redisScheme == <<"r", "e", "d", "i", "s", ":", "/", "/">>
S_clusterTrue == <<"c", "l", "u", "s", "t", "e", "r", "=", "t", "r", "u", "e">>
S_qCluster == <<"?", "c", "l", "u", "s", "t", "e", "r">>
S_cluster == <<"c", "l", "u", "s", "t", "e", "r">>
S_qClusterTrue == <<"?", "c", "l", "u", "s", "t", "e", "r", "=", "t", "r", "u", "e">>

\* new URL(u).hostname for a redis:// URL: the authority runs to the first
\* "/", "?" or "#"; user information ends at the last "@"; the port follows
\* the ":" and must be decimal, otherwise the constructor throws.
UrlHostname(u) ==
    LET rest == SubSeq(u, Len(S_redisScheme) + 1, Len(u))
        authority == SubSeq(rest, 1, FirstIn(rest, {"/", "?", "#"}) - 1)
        hostport == SubSeq(authority, LastIn(authority, {"@"}) + 1, Len(authority))
        colon == FirstIn(hostport, {":"})
        port == SubSeq(hostport, colon + 1, Len(hostport))
    IN  IF \A i \in 1..Len(port) : port[i] \in Digits
        THEN [ok |-> TRUE, hostname |-> SubSeq(hostport, 1, colon - 1)]
        ELSE [ok |-> FALSE, hostname |-> <<>>]

isClusterConnection(url) ==
    IF Includes(url, S_clusterTrue) \/ Includes(url, S_qCluster)
    THEN TRUE
    ELSE IF Includes(url, <<",">>)
    THEN TRUE
    ELSE LET parsed == UrlHostname(IF StartsWith(url, S_redisScheme)
                                   THEN url ELSE S_redisScheme \o url)
         IN  parsed.ok /\ Includes(parsed.hostname, S_cluster)

\* The connection strings tried: an optional scheme, a host, an optional port
\* and a tail (nothing, a cluster flag, a database path or query, a second node).
UrlSchemes == {<<>>, S_redisScheme}
UrlHosts ==
    { <<"r", "e", "d", "i", "s", "-", "l", "i", "v", "e", "k", "i", "t", ".", "r", "e", "d", "i", "s", ".", "s", "v", "c", ".", "c", "l", "u", "s", "t", "e", "r", ".", "l", "o", "c", "a", "l">>,
      <<"r", "e", "d", "i", "s", "-", "c", "l", "u", "s", "t", "e", "r", ".", "r", "e", "d", "i", "s", ".", "s", "v", "c", ".", "c", "l", "u", "s", "t", "e", "r", ".", "l", "o", "c", "a", "l">>,
      <<"l", "o", "c", "a", "l", "h", "o", "s", "t">>,
      <<"1", "0", ".", "0", ".", "0", ".", "5">>,
      <<"c", "a", "c", "h", "e", ".", "e", "x", "a", "m", "p", "l", "e", ".", "c", "o", "m">> }
UrlPorts == {<<>>, <<":", "6", "3", "7", "9">>}
UrlTails ==
    { <<>>,
      S_qClusterTrue,
      S_qCluster,
      <<"/", "0">>,
      <<"?", "d", "b", "=", "0">>,
      <<",", "r", "e", "d", "i", "s", ":", "/", "/", "n", "o", "d", "e", "2", ":", "6", "3", "7", "9">> }
UrlInputs == {s \o h \o p \o t : s \in UrlSchemes, h \in UrlHosts, p \in UrlPorts, t \in UrlTails}

\* redis://redis-livekit.redis.svc.cluster.local:6379, the standalone URL of docs/redis-cluster-setup.md
DocStandaloneUrl == <<"r", "e", "d", "i", "s", ":", "/", "/", "r", "e", "d", "i", "s", "-", "l", "i", "v", "e", "k", "i", "t", ".", "r", "e", "d", "i", "s", ".", "s", "v", "c", ".", "c", "l", "u", "s", "t", "e", "r", ".", "l", "o", "c", "a", "l", ":", "6", "3", "7", "9">>

----------------------------------------------------------------------------
(* JavaScript values and JSON                                              *)
(*                                                                         *)
(* A value is a record [t, b, n, s, a, o]: t names the type ("null",       *)
(* "bool", "num", "str", "arr", "obj") and the field of that type holds    *)
(* the payload: a boolean, an integer, a sequence of characters, a         *)
(* sequence of values, or a sequence of <<key, value>> pairs in insertion  *)
(* order. The other fields hold fixed defaults.                            *)

JNull == [t |-> "null", b |-> FALSE, n |-> 0, s |-> <<>>, a |-> <<>>, o |-> <<>>]
JBool(x) == [JNull EXCEPT !.t = "bool", !.b = x]
JNum(x) == [JNull EXCEPT !.t = "num", !.n = x]
JStr(x) == [JNull EXCEPT !.t = "str", !.s = x]
JArr(x) == [JNull EXCEPT !.t = "arr", !.a = x]
JObj(x) == [JNull EXCEPT !.t = "obj", !.o = x]

DigitSeq == <<"0", "1", "2", "3", "4", "5", "6", "7", "8", "9">>
DigitValue(c) == (CHOOSE i \in 1..10 : DigitSeq[i] = c) - 1

\* String(n) for an integer n
RECURSIVE NatToText(_)
NatToText(n) ==
    IF n < 10 THEN <<DigitSeq[n + 1]>> ELSE NatToText(n \div 10) \o <<DigitSeq[(n % 10) + 1]>>

IntToText(n) == IF n < 0 THEN <<"-">> \o NatToText(0 - n) ELSE NatToText(n)

\* the value of a run of decimal digits
RECURSIVE DigitsToNat(_)
DigitsToNat(s) ==
    IF Len(s) = 0 THEN 0
    ELSE 10 * DigitsToNat(SubSeq(s, 1, Len(s) - 1)) + DigitValue(s[Len(s)])

\* the quoting of JSON.stringify for a string: " and \ are escaped
RECURSIVE EscapeText(_)
EscapeText(s) ==
    IF Len(s) = 0 THEN <<>>
    ELSE (IF Head(s) \in {"\"", "\\"} THEN <<"\\", Head(s)>> ELSE <<Head(s)>>)
         \o EscapeText(Tail(s))

\* a plausible slip: the text is quoted without escaping
QuoteText_noEscape(s) == <<"\"">> \o s \o <<"\"">>

QuoteText(s) == <<"\"">> \o EscapeText(s) \o <<"\"">>

\* JSON.stringify(value)
RECURSIVE JSONstringify(_)
RECURSIVE StringifyItems(_)
RECURSIVE StringifyPairs(_)
JSONstringify(x) ==
    CASE x.t = "null" -> <<"n", "u", "l", "l">>
      [] x.t = "bool" -> IF x.b THEN <<"t", "r", "u", "e">> ELSE <<"f", "a", "l", "s", "e">>
      [] x.t = "num" -> IntToText(x.n)
      [] x.t = "str" -> QuoteText(x.s)
      [] x.t = "arr" -> <<"[">> \o StringifyItems(x.a) \o <<"]">>
      [] x.t = "obj" -> <<"{">> \o StringifyPairs(x.o) \o <<"}">>

StringifyItems(a) ==
    IF Len(a) = 0 THEN <<>>
    ELSE JSONstringify(Head(a))
         \o (IF Len(a) > 1 THEN <<",">> \o StringifyItems(Tail(a)) ELSE <<>>)

StringifyPairs(ps) ==
    IF Len(ps) = 0 THEN <<>>
    ELSE QuoteText(Head(ps)[1]) \o <<":">> \o JSONstringify(Head(ps)[2])
         \o (IF Len(ps) > 1 THEN <<",">> \o StringifyPairs(Tail(ps)) ELSE <<>>)

\* JSON.parse: each parser returns [ok, v, rest]; ok = FALSE is a SyntaxError.
\* The grammar is JSON without insignificant white space, fractions and
\* exponents, and with the escapes \" and \\ only: what the stored texts use.
ParseError == [ok |-> FALSE, v |-> JNull, rest |-> <<>>]

\* the characters of a string literal after its opening quote
RECURSIVE ParseChars(_, _)
ParseChars(s, acc) ==
    IF Len(s) = 0 THEN ParseError
    ELSE IF Head(s) = "\"" THEN [ok |-> TRUE, v |-> JStr(acc), rest |-> Tail(s)]
    ELSE IF Head(s) = "\\"
    THEN IF Len(s) >= 2 /\ s[2] \in {"\"", "\\"}
         THEN ParseChars(SubSeq(s, 3, Len(s)), Append(acc, s[2]))
         ELSE ParseError
    ELSE ParseChars(Tail(s), Append(acc, Head(s)))

\* an integer literal: an optional minus sign, then 0 or a run of digits not starting with 0
ParseNumber(s) ==
    LET neg == Len(s) > 0 /\ Head(s) = "-"
        body == IF neg THEN Tail(s) ELSE s
        n == IF \E i \in 1..Len(body) : body[i] \notin Digits
             THEN (CHOOSE i \in 1..Len(body) :
                       body[i] \notin Digits /\ \A j \in 1..(i - 1) : body[j] \in Digits) - 1
             ELSE Len(body)
        digits == SubSeq(body, 1, n)
    IN  IF n = 0 \/ (n > 1 /\ digits[1] = "0") THEN ParseError
        ELSE [ok |-> TRUE,
              v |-> JNum(IF neg THEN 0 - DigitsToNat(digits) ELSE DigitsToNat(digits)),
              rest |-> SubSeq(body, n + 1, Len(body))]

RECURSIVE ParseValue(_)
RECURSIVE ParseItems(_, _)
RECURSIVE ParsePairs(_, _)
ParseValue(s) ==
    IF Len(s) = 0 THEN ParseError
    ELSE IF StartsWith(s, <<"n", "u", "l", "l">>)
    THEN [ok |-> TRUE, v |-> JNull, rest |-> SubSeq(s, 5, Len(s))]
    ELSE IF StartsWith(s, <<"t", "r", "u", "e">>)
    THEN [ok |-> TRUE, v |-> JBool(TRUE), rest |-> SubSeq(s, 5, Len(s))]
    ELSE IF StartsWith(s, <<"f", "a", "l", "s", "e">>)
    THEN [ok |-> TRUE, v |-> JBool(FALSE), rest |-> SubSeq(s, 6, Len(s))]
    ELSE IF Head(s) = "\"" THEN ParseChars(Tail(s), <<>>)
    ELSE IF Head(s) = "["
    THEN IF Len(s) >= 2 /\ s[2] = "]"
         THEN [ok |-> TRUE, v |-> JArr(<<>>), rest |-> SubSeq(s, 3, Len(s))]
         ELSE ParseItems(Tail(s), <<>>)
    ELSE IF Head(s) = "{"
    THEN IF Len(s) >= 2 /\ s[2] = "}"
         THEN [ok |-> TRUE, v |-> JObj(<<>>), rest |-> SubSeq(s, 3, Len(s))]
         ELSE ParsePairs(Tail(s), <<>>)
    ELSE IF Head(s) \in Digits \cup {"-"} THEN ParseNumber(s)
    ELSE ParseError

\* the elements of an array after "[" or ","
ParseItems(s, acc) ==
    LET item == ParseValue(s)
    IN  IF ~item.ok \/ Len(item.rest) = 0 THEN ParseError
        ELSE IF Head(item.rest) = ","
        THEN ParseItems(Tail(item.rest), Append(acc, item.v))
        ELSE IF Head(item.rest) = "]"
        THEN [ok |-> TRUE, v |-> JArr(Append(acc, item.v)), rest |-> Tail(item.rest)]
        ELSE ParseError

\* the members of an object after "{" or ","
ParsePairs(s, acc) ==
    IF Len(s) = 0 \/ Head(s) # "\"" THEN ParseError
    ELSE LET key == ParseChars(Tail(s), <<>>)
         IN  IF ~key.ok \/ Len(key.rest) = 0 \/ Head(key.rest) # ":" THEN ParseError
             ELSE LET item == ParseValue(Tail(key.rest))
                      pairs == Append(acc, <<key.v.s, item.v>>)
                  IN  IF ~item.ok \/ Len(item.rest) = 0 THEN ParseError
                      ELSE IF Head(item.rest) = ","
                      THEN ParsePairs(Tail(item.rest), pairs)
                      ELSE IF Head(item.rest) = "}"
                      THEN [ok |-> TRUE, v |-> JObj(pairs), rest |-> Tail(item.rest)]
                      ELSE ParseError

\* JSON.parse(text): [ok, v]; trailing characters are a SyntaxError
JSONparse(text) ==
    LET r == ParseValue(text)
    IN  IF r.ok /\ Len(r.rest) = 0 THEN [ok |-> TRUE, v |-> r.v] ELSE [ok |-> FALSE, v |-> JNull]

----------------------------------------------------------------------------
(* The backend store, as the client commands of the provider see it        *)
(*                                                                         *)
(* db.str maps each present string key to [text, ttl] (ttl: the key was    *)
(* written with an expiry), db.set maps each present set key to its        *)
(* members, db.hash maps each present hash key to its <<field, text>>      *)
(* pairs in insertion order. Keys, members, fields and texts are           *)
(* sequences of characters.                                                *)

EmptyDb == [str |-> <<>>, set |-> <<>>, hash |-> <<>>]

Put(f, k, x) == [y \in DOMAIN f \cup {k} |-> IF y = k THEN x ELSE f[y]]
Drop(f, k) == [y \in DOMAIN f \ {k} |-> f[y]]

HashHas(h, field) == \E i \in 1..Len(h) : h[i][1] = field
HashGet(h, field) == h[CHOOSE i \in 1..Len(h) : h[i][1] = field][2]
HashPut(h, field, text) ==
    IF HashHas(h, field)
    THEN [i \in 1..Len(h) |-> IF h[i][1] = field THEN <<field, text>> ELSE h[i]]
    ELSE Append(h, <<field, text>>)

RECURSIVE HashPutAll(_, _)
HashPutAll(h, pairs) ==
    IF Len(pairs) = 0 THEN h
    ELSE HashPutAll(HashPut(h, Head(pairs)[1], Head(pairs)[2]), Tail(pairs))

HashOf(d, key) == IF key \in DOMAIN d.hash THEN d.hash[key] ELSE <<>>
SetOf(d, key) == IF key \in DOMAIN d.set THEN d.set[key] ELSE {}
KeysOf(d) == DOMAIN d.str \cup DOMAIN d.set \cup DOMAIN d.hash

\* the text is what INCR and HINCRBY accept as an integer
IsIntText(text) ==
    LET r == ParseNumber(text) IN r.ok /\ Len(r.rest) = 0
IntOfText(text) == ParseNumber(text).v.n

S_OK == <<"O", "K">>
S_PONG == <<"P", "O", "N", "G">>
S_star == <<"*">>

\* a command as the client sends it
Cmd(c, key) ==
    [c |-> c, key |-> key, ttl |-> 0, text |-> <<>>, members |-> {}, pairs |-> <<>>,
     field |-> <<>>, n |-> 0]

\* What the server does with one command: the new store, whether it replied
\* with an error, the reply (nil is JNull, a text is JStr, an integer is JNum,
\* a hash is JObj of texts), and for SMEMBERS and KEYS the set replied.
Reply(d, x) == [db |-> d, err |-> FALSE, res |-> x, set |-> {}]
ErrorReply(d) == [db |-> d, err |-> TRUE, res |-> JNull, set |-> {}]

ServerApply(d, cmd) ==
    CASE cmd.c = "GET" ->
            IF cmd.key \in DOMAIN d.str THEN Reply(d, JStr(d.str[cmd.key].text)) ELSE Reply(d, JNull)
      [] cmd.c = "SET" ->
            Reply([d EXCEPT !.str = Put(@, cmd.key, [text |-> cmd.text, ttl |-> FALSE])], JStr(S_OK))
      [] cmd.c = "SETEX" ->
            IF cmd.ttl <= 0 THEN ErrorReply(d)
            ELSE Reply([d EXCEPT !.str = Put(@, cmd.key, [text |-> cmd.text, ttl |-> TRUE])], JStr(S_OK))
      [] cmd.c = "DEL" ->
            Reply([str |-> Drop(d.str, cmd.key), set |-> Drop(d.set, cmd.key),
                   hash |-> Drop(d.hash, cmd.key)],
                  JNum(IF cmd.key \in KeysOf(d) THEN 1 ELSE 0))
      [] cmd.c = "EXISTS" -> Reply(d, JNum(IF cmd.key \in KeysOf(d) THEN 1 ELSE 0))
      [] cmd.c = "PING" -> Reply(d, JStr(S_PONG))
      [] cmd.c = "SADD" ->
            Reply([d EXCEPT !.set = Put(@, cmd.key, SetOf(d, cmd.key) \cup cmd.members)],
                  JNum(Cardinality(cmd.members \ SetOf(d, cmd.key))))
      [] cmd.c = "SMEMBERS" -> [Reply(d, JNull) EXCEPT !.set = SetOf(d, cmd.key)]
      [] cmd.c = "SCARD" -> Reply(d, JNum(Cardinality(SetOf(d, cmd.key))))
      [] cmd.c = "HSET" ->
            Reply([d EXCEPT !.hash = Put(@, cmd.key, HashPutAll(HashOf(d, cmd.key), cmd.pairs))],
                  JNum(Cardinality({i \in 1..Len(cmd.pairs) :
                                       ~HashHas(HashOf(d, cmd.key), cmd.pairs[i][1])})))
      [] cmd.c = "HGETALL" ->
            Reply(d, JObj([i \in 1..Len(HashOf(d, cmd.key)) |->
                              <<HashOf(d, cmd.key)[i][1], JStr(HashOf(d, cmd.key)[i][2])>>]))
      [] cmd.c = "HINCRBY" ->
            LET h == HashOf(d, cmd.key)
                old == IF HashHas(h, cmd.field) THEN HashGet(h, cmd.field) ELSE <<"0">>
            IN  IF ~IsIntText(old) THEN ErrorReply(d)
                ELSE Reply([d EXCEPT !.hash =
                                Put(@, cmd.key, HashPut(h, cmd.field, IntToText(IntOfText(old) + cmd.n)))],
                           JNum(IntOfText(old) + cmd.n))
      [] cmd.c = "INCR" ->
            LET old == IF cmd.key \in DOMAIN d.str THEN d.str[cmd.key].text ELSE <<"0">>
                ttl == IF cmd.key \in DOMAIN d.str THEN d.str[cmd.key].ttl ELSE FALSE
            IN  IF ~IsIntText(old) THEN ErrorReply(d)
                ELSE Reply([d EXCEPT !.str =
                                Put(@, cmd.key, [text |-> IntToText(IntOfText(old) + 1), ttl |-> ttl])],
                           JNum(IntOfText(old) + 1))
      [] cmd.c = "KEYS" ->
            [Reply(d, JNull) EXCEPT !.set = IF cmd.text = S_star THEN KeysOf(d) ELSE {}]

\* How the client's promise for a command settles: the backend answers
\* ("ok"), rejects ("reject"), or never answers ("silent"), in which case the
\* client's commandTimeout rejects the promise.
Modes == {"ok", "reject", "silent"}
ClientFails(mode) == mode # "ok"

\* the sequences that list the elements of a finite set once each
Orderings(S) ==
    {q \in [1..Cardinality(S) -> S] : \A i, j \in 1..Cardinality(S) : i # j => q[i] # q[j]}

----------------------------------------------------------------------------
(* RedisProvider: each method maps the store, its arguments and the way    *)
(* the client's promise settles to [db, out, val]: the store afterwards,   *)
(* "return" or "throw", and the value the caller receives.                 *)

JUndefined == [JNull EXCEPT !.t = "undefined"]

Return(d, x) == [db |-> d, out |-> "return", val |-> x]
Throw(d) == [db |-> d, out |-> "throw", val |-> JUndefined]

RedisGet(d, key, mode) ==
    IF ClientFails(mode) THEN Return(d, JNull)
    ELSE LET value == ServerApply(d, Cmd("GET", key)).res
         IN  IF value.t = "null" THEN Return(d, JNull)
             ELSE IF JSONparse(value.s).ok THEN Return(d, JSONparse(value.s).v)
             ELSE Return(d, JNull)

RedisSet(d, key, value, ttl, mode) ==
    LET cmd == IF ttl # 0
               THEN [Cmd("SETEX", key) EXCEPT !.ttl = ttl, !.text = JSONstringify(value)]
               ELSE [Cmd("SET", key) EXCEPT !.text = JSONstringify(value)]
    IN  IF ClientFails(mode) THEN Return(d, JUndefined)
        ELSE Return(ServerApply(d, cmd).db, JUndefined)

RedisSetex(d, key, ttl, value, mode) ==
    IF ClientFails(mode) THEN Return(d, JUndefined)
    ELSE Return(ServerApply(d, [Cmd("SETEX", key) EXCEPT !.ttl = ttl,
                                                         !.text = JSONstringify(value)]).db,
                JUndefined)

RedisDel(d, key, mode) ==
    IF ClientFails(mode) THEN Return(d, JUndefined)
    ELSE Return(ServerApply(d, Cmd("DEL", key)).db, JUndefined)

RedisExists(d, key, mode) ==
    IF ClientFails(mode) THEN Return(d, JBool(FALSE))
    ELSE Return(d, JBool(ServerApply(d, Cmd("EXISTS", key)).res = JNum(1)))

RedisPing(d, mode) ==
    IF ClientFails(mode) THEN Return(d, JBool(FALSE))
    ELSE Return(d, JBool(ServerApply(d, Cmd("PING", <<>>)).res = JStr(S_PONG)))

RedisSadd(d, key, members, mode) ==
    IF ClientFails(mode) THEN Return(d, JNum(0))
    ELSE LET r == ServerApply(d, [Cmd("SADD", key) EXCEPT !.members = members])
         IN  Return(r.db, r.res)

\* order: the order in which the server lists the members
RedisSmembers(d, key, order, mode) ==
    IF ClientFails(mode) THEN Return(d, JArr(<<>>))
    ELSE Return(d, JArr([i \in 1..Len(order) |-> JStr(order[i])]))

RedisScard(d, key, mode) ==
    IF ClientFails(mode) THEN Return(d, JNum(0))
    ELSE Return(d, ServerApply(d, Cmd("SCARD", key)).res)

\* fields: <<field, value>> pairs; hset(key, field, value) is the one-pair case
SerializePairs(fields) == [i \in 1..Len(fields) |-> <<fields[i][1], JSONstringify(fields[i][2])>>]

RedisHset(d, key, fields, mode) ==
    IF ClientFails(mode) THEN Return(d, JUndefined)
    ELSE Return(ServerApply(d, [Cmd("HSET", key) EXCEPT !.pairs = SerializePairs(fields)]).db,
                JUndefined)

\* the values of an HGETALL reply parsed, a value that is no JSON kept as text
ParseHash(result) ==
    JObj([i \in 1..Len(result.o) |->
            <<result.o[i][1],
              IF JSONparse(result.o[i][2].s).ok
              THEN JSONparse(result.o[i][2].s).v
              ELSE result.o[i][2]>>])

RedisHgetall(d, key, mode) ==
    IF ClientFails(mode) THEN Return(d, JObj(<<>>))
    ELSE Return(d, ParseHash(ServerApply(d, Cmd("HGETALL", key)).res))

RedisHincrby(d, key, field, increment, mode) ==
    IF ClientFails(mode) THEN Return(d, JNum(0))
    ELSE LET r == ServerApply(d, [Cmd("HINCRBY", key) EXCEPT !.field = field, !.n = increment])
         IN  IF r.err THEN Return(d, JNum(0)) ELSE Return(r.db, r.res)

RedisIncr(d, key, mode) ==
    IF ClientFails(mode) THEN Return(d, JNum(0))
    ELSE LET r == ServerApply(d, Cmd("INCR", key))
         IN  IF r.err THEN Return(d, JNum(0)) ELSE Return(r.db, r.res)

RedisKeys(d, pattern, order, mode) ==
    IF ClientFails(mode) THEN Return(d, JArr(<<>>))
    ELSE Return(d, JArr([i \in 1..Len(order) |-> JStr(order[i])]))

\* pipeline(): the queueing methods serialize as the direct methods do
PipeSetex(key, ttl, value) == [Cmd("SETEX", key) EXCEPT !.ttl = ttl, !.text = JSONstringify(value)]
PipeSadd(key, members) == [Cmd("SADD", key) EXCEPT !.members = members]
PipeHset(key, fields) == [Cmd("HSET", key) EXCEPT !.pairs = SerializePairs(fields)]
PipeHincrby(key, field, increment) == [Cmd("HINCRBY", key) EXCEPT !.field = field, !.n = increment]
PipeIncr(key) == Cmd("INCR", key)
PipeHgetall(key) == Cmd("HGETALL", key)

\* a plausible slip: the replies are collected last first
RECURSIVE RunBatch_repliesReversed(_, _)
RunBatch_repliesReversed(d, batch) ==
    IF Len(batch) = 0 THEN [db |-> d, errs |-> <<>>, results |-> <<>>]
    ELSE LET r == ServerApply(d, Head(batch))
             more == RunBatch_repliesReversed(r.db, Tail(batch))
         IN  [db |-> more.db, errs |-> more.errs \o <<r.err>>, results |-> more.results \o <<r.res>>]

\* the server runs the queued commands one after the other: [db, errs, results]
RECURSIVE RunBatch(_, _)
RunBatch(d, batch) ==
    IF Len(batch) = 0 THEN [db |-> d, errs |-> <<>>, results |-> <<>>]
    ELSE LET r == ServerApply(d, Head(batch))
             more == RunBatch(r.db, Tail(batch))
         IN  [db |-> more.db, errs |-> <<r.err>> \o more.errs, results |-> <<r.res>> \o more.results]

\* exec(): an empty batch resolves to [] without a round trip; a failed round
\* trip rejects; an error reply of any command is rethrown; hash replies are parsed.
RedisExec(d, batch, mode) ==
    IF Len(batch) = 0 THEN Return(d, JArr(<<>>))
    ELSE IF ClientFails(mode) THEN Throw(d)
    ELSE LET r == RunBatch(d, batch)
         IN  IF \E i \in 1..Len(r.errs) : r.errs[i] THEN Throw(r.db)
             ELSE Return(r.db, JArr([i \in 1..Len(r.results) |->
                                        IF r.results[i].t = "obj"
                                        THEN ParseHash(r.results[i])
                                        ELSE r.results[i]]))

----------------------------------------------------------------------------
(* The cache-provider factory                                              *)
(*                                                                         *)
(* env holds the configuration variables the factory reads, each a text,   *)
(* the empty text standing for an unset variable (both are falsy).         *)

S_redis == <<"r", "e", "d", "i", "s">>
S_RedisUpper == <<"R", "E", "D", "I", "S">>
S_vercelKv == <<"v", "e", "r", "c", "e", "l", "-", "k", "v">>
S_kvUrl == <<"h", "t", "t", "p", "s", ":", "/", "/", "k", "v">>
S_kvToken == <<"t", "o", "k">>

UpperSeq == <<"A", "B", "C", "D", "E", "F", "G", "H", "I", "J", "K", "L", "M", "N", "O", "P", "Q", "R", "S", "T", "U", "V", "W", "X", "Y", "Z">>
LowerSeq == <<"a", "b", "c", "d", "e", "f", "g", "h", "i", "j", "k", "l", "m", "n", "o", "p", "q", "r", "s", "t", "u", "v", "w", "x", "y", "z">>

\* s.toLowerCase()
ToLowerCase(s) ==
    [i \in 1..Len(s) |->
        IF \E j \in 1..26 : UpperSeq[j] = s[i]
        THEN LowerSeq[CHOOSE j \in 1..26 : UpperSeq[j] = s[i]]
        ELSE s[i]]

NoEnv ==
    [CACHE_PROVIDER |-> <<>>, REDIS_URL |-> <<>>, KV_REST_API_URL |-> <<>>, KV_URL |-> <<>>,
     KV_REST_API_TOKEN |-> <<>>,
     CLUSTER_AI_ENABLED |-> <<>>, AI_PROVIDER |-> <<>>,
     GEMINI_API_KEY |-> <<>>, GEMINI_MODEL |-> <<>>,
     OPENAI_API_KEY |-> <<>>, OPENAI_MODEL |-> <<>>, OPENAI_BASE_URL |-> <<>>,
     ANTHROPIC_API_KEY |-> <<>>, ANTHROPIC_MODEL |-> <<>>,
     CLUSTER_AI_MODEL |-> <<>>, CLUSTER_AI_API_KEY |-> <<>>, CLUSTER_AI_SERVICE_URL |-> <<>>,
     KUBERNETES_SERVICE_HOST |-> <<>>, KUBERNETES_SERVICE_PORT |-> <<>>,
     CLUSTER_AI_SERVICE |-> <<>>, CLUSTER_AI_NAMESPACE |-> <<>>, CLUSTER_AI_PORT |-> <<>>,
     CLUSTER_AI_ENDPOINT |-> <<>>, CLUSTER_AI_PATH |-> <<>>]

\* the configuration of a self-hosted deployment
RedisEnv == [NoEnv EXCEPT !.CACHE_PROVIDER = S_redis, !.REDIS_URL = DocStandaloneUrl]

\* a plausible slip: auto-detection looks for hosted-KV credentials first
createCacheProvider_kvFirst(e) ==
    IF ToLowerCase(e.CACHE_PROVIDER) = <<>>
    THEN IF e.KV_REST_API_URL # <<>> \/ e.KV_URL # <<>> \/ e.KV_REST_API_TOKEN # <<>>
         THEN [out |-> "return", variant |-> "vercel-kv"]
         ELSE IF e.REDIS_URL # <<>> THEN [out |-> "return", variant |-> "redis"]
         ELSE [out |-> "return", variant |-> "vercel-kv"]
    ELSE IF ToLowerCase(e.CACHE_PROVIDER) = S_redis
    THEN IF e.REDIS_URL = <<>> THEN [out |-> "throw", variant |-> "null"]
         ELSE [out |-> "return", variant |-> "redis"]
    ELSE [out |-> "return", variant |-> "vercel-kv"]

\* createCacheProvider(): the variant constructed ("redis" or "vercel-kv"), or a throw
createCacheProvider(e) ==
    LET provider == ToLowerCase(e.CACHE_PROVIDER)
    IN  IF provider = <<>>
        THEN IF e.REDIS_URL # <<>> THEN [out |-> "return", variant |-> "redis"]
             ELSE [out |-> "return", variant |-> "vercel-kv"]
        ELSE IF provider = S_redis
        THEN IF e.REDIS_URL = <<>> THEN [out |-> "throw", variant |-> "null"]
             ELSE [out |-> "return", variant |-> "redis"]
        ELSE [out |-> "return", variant |-> "vercel-kv"]

\* getCacheProvider(): the singleton, constructed on first use; a throw of the
\* factory leaves the slot as it was
getCacheProvider(instance, e) ==
    IF instance # "null" THEN [out |-> "return", variant |-> instance]
    ELSE createCacheProvider(e)

----------------------------------------------------------------------------
(* The AI-provider factory and the construction of the AI providers        *)
(*                                                                         *)
(* The repository holds createAIProvider twice (one with the cluster       *)
(* backend, one without) and getClusterAIConfig twice (base URLs with and  *)
(* without /v1); build names the copies a deployment is built from.        *)

S_true == <<"t", "r", "u", "e">>
S_gemini == <<"g", "e", "m", "i", "n", "i">>
S_openai == <<"o", "p", "e", "n", "a", "i">>
S_openaiCompatible == <<"o", "p", "e", "n", "a", "i", "-", "c", "o", "m", "p", "a", "t", "i", "b", "l", "e">>
S_anthropic == <<"a", "n", "t", "h", "r", "o", "p", "i", "c">>
S_clusterAi == <<"c", "l", "u", "s", "t", "e", "r", "-", "a", "i">>
S_clusterMcp == <<"c", "l", "u", "s", "t", "e", "r", "-", "m", "c", "p">>
S_geminiModel == <<"g", "e", "m", "i", "n", "i", "-", "2", ".", "5", "-", "f", "l", "a", "s", "h">>
S_gpt4 == <<"g", "p", "t", "-", "4">>
S_claudeModel == <<"c", "l", "a", "u", "d", "e", "-", "3", "-", "5", "-", "s", "o", "n", "n", "e", "t", "-", "2", "0", "2", "4", "1", "0", "2", "2">>
S_qwenModel == <<"/", "a", "p", "p", "/", "m", "o", "d", "e", "l", "s", "/", "t", "e", "x", "t", "_", "g", "e", "n", "e", "r", "a", "t", "i", "o", "n", "/", "q", "w", "e", "n", "2", ".", "5", "-", "7", "b", "-", "i", "n", "s", "t", "r", "u", "c", "t">>
S_mcpApiServer == <<"m", "c", "p", "-", "a", "p", "i", "-", "s", "e", "r", "v", "e", "r">>
S_aiInfrastructure == <<"a", "i", "-", "i", "n", "f", "r", "a", "s", "t", "r", "u", "c", "t", "u", "r", "e">>
S_8000 == <<"8", "0", "0", "0">>
S_ingress == <<"h", "t", "t", "p", "s", ":", "/", "/", "a", "p", "i", ".", "a", "s", "k", "c", "o", "l", "l", "e", "c", "t", "i", "o", "n", "s", ".", "c", "o", "m">>
S_mcp == <<"/", "m", "c", "p">>
S_v1 == <<"/", "v", "1">>
S_http == <<"h", "t", "t", "p", ":", "/", "/">>
S_svcClusterLocal == <<".", "s", "v", "c", ".", "c", "l", "u", "s", "t", "e", "r", ".", "l", "o", "c", "a", "l", ":">>

\* a || b on texts: the empty text is falsy
TextOr(a, b) == IF a # <<>> THEN a ELSE b

\* no AI provider
NoAI == [variant |-> "null", apiKey |-> <<>>, baseURL |-> <<>>, defaultModel |-> <<>>]

\* what a constructor or a factory hands back
Built(variant, apiKey, baseURL, defaultModel) ==
    [out |-> "return",
     inst |-> [variant |-> variant, apiKey |-> apiKey, baseURL |-> baseURL,
               defaultModel |-> defaultModel]]
NotBuilt == [out |-> "throw", inst |-> NoAI]

\* new GeminiProvider(apiKey, defaultModel)
GeminiProvider(apiKey, defaultModel) ==
    IF apiKey = <<>> THEN NotBuilt ELSE Built("gemini", apiKey, <<>>, defaultModel)

\* new OpenAIProvider(apiKey, baseURL, defaultModel)
OpenAIProvider(apiKey, baseURL, defaultModel) ==
    IF apiKey = <<>> THEN NotBuilt ELSE Built("openai", apiKey, baseURL, defaultModel)

\* new AnthropicProvider(apiKey, defaultModel)
AnthropicProvider(apiKey, defaultModel) ==
    IF apiKey = <<>> THEN NotBuilt ELSE Built("anthropic", apiKey, <<>>, defaultModel)

\* the in-cluster URL http://<service>.<namespace>.svc.cluster.local:<port><suffix>
ServiceDnsURL(serviceName, namespace, port, suffix) ==
    S_http \o serviceName \o <<".">> \o namespace \o S_svcClusterLocal \o port \o suffix

\* ClusterAIProvider.detectBaseURL()
detectBaseURL(e) ==
    IF e.CLUSTER_AI_SERVICE_URL # <<>> THEN e.CLUSTER_AI_SERVICE_URL
    ELSE IF e.KUBERNETES_SERVICE_HOST # <<>>
    THEN ServiceDnsURL(TextOr(e.CLUSTER_AI_SERVICE, S_mcpApiServer),
                       TextOr(e.CLUSTER_AI_NAMESPACE, S_aiInfrastructure), S_8000, S_v1)
    ELSE TextOr(e.CLUSTER_AI_ENDPOINT, S_ingress) \o TextOr(e.CLUSTER_AI_PATH, S_mcp) \o S_v1

\* text.replace(/\/$/, "")
StripTrailingSlash(text) ==
    IF Len(text) > 0 /\ text[Len(text)] = "/" THEN SubSeq(text, 1, Len(text) - 1) ELSE text

\* new ClusterAIProvider(baseURL, defaultModel, apiKey): nothing is required,
\* a missing key is replaced by a placeholder
ClusterAIProvider(baseURL, defaultModel, apiKey, e) ==
    Built("cluster", TextOr(apiKey, S_clusterAi),
          StripTrailingSlash(TextOr(baseURL, detectBaseURL(e))),
          TextOr(defaultModel, S_qwenModel))

\* isRunningInCluster()
isRunningInCluster(e) == e.KUBERNETES_SERVICE_HOST # <<>> /\ e.KUBERNETES_SERVICE_PORT # <<>>

\* getClusterAIConfig().baseURL, the copy whose URLs end with /v1
getClusterAIConfig(e) ==
    IF e.CLUSTER_AI_SERVICE_URL # <<>> THEN e.CLUSTER_AI_SERVICE_URL
    ELSE IF isRunningInCluster(e)
    THEN ServiceDnsURL(TextOr(e.CLUSTER_AI_SERVICE, S_mcpApiServer),
                       TextOr(e.CLUSTER_AI_NAMESPACE, S_aiInfrastructure),
                       TextOr(e.CLUSTER_AI_PORT, S_8000), S_v1)
    ELSE TextOr(e.CLUSTER_AI_ENDPOINT, S_ingress) \o TextOr(e.CLUSTER_AI_PATH, S_mcp) \o S_v1

\* getClusterAIConfig().baseURL, the copy whose URLs end with the path
getClusterAIConfigPath(e) ==
    IF e.CLUSTER_AI_SERVICE_URL # <<>> THEN e.CLUSTER_AI_SERVICE_URL
    ELSE IF isRunningInCluster(e)
    THEN ServiceDnsURL(TextOr(e.CLUSTER_AI_SERVICE, S_mcpApiServer),
                       TextOr(e.CLUSTER_AI_NAMESPACE, S_aiInfrastructure),
                       TextOr(e.CLUSTER_AI_PORT, S_8000), TextOr(e.CLUSTER_AI_PATH, S_mcp))
    ELSE TextOr(e.CLUSTER_AI_ENDPOINT, S_ingress) \o TextOr(e.CLUSTER_AI_PATH, S_mcp)

\* a plausible slip: an unrecognized name is refused
NamedProvider_unknownThrows(provider, e) ==
    IF provider = S_gemini
    THEN GeminiProvider(e.GEMINI_API_KEY, TextOr(e.GEMINI_MODEL, S_geminiModel))
    ELSE IF provider \in {S_openai, S_openaiCompatible}
    THEN OpenAIProvider(e.OPENAI_API_KEY, e.OPENAI_BASE_URL, TextOr(e.OPENAI_MODEL, S_gpt4))
    ELSE IF provider = S_anthropic
    THEN AnthropicProvider(e.ANTHROPIC_API_KEY, TextOr(e.ANTHROPIC_MODEL, S_claudeModel))
    ELSE NotBuilt

\* the switch on the named provider, shared by both copies of the factory
NamedProvider(provider, e) ==
    IF provider = S_gemini
    THEN GeminiProvider(e.GEMINI_API_KEY, TextOr(e.GEMINI_MODEL, S_geminiModel))
    ELSE IF provider \in {S_openai, S_openaiCompatible}
    THEN OpenAIProvider(e.OPENAI_API_KEY, e.OPENAI_BASE_URL, TextOr(e.OPENAI_MODEL, S_gpt4))
    ELSE IF provider = S_anthropic
    THEN AnthropicProvider(e.ANTHROPIC_API_KEY, TextOr(e.ANTHROPIC_MODEL, S_claudeModel))
    ELSE GeminiProvider(e.GEMINI_API_KEY, TextOr(e.GEMINI_MODEL, S_geminiModel))

\* createAIProvider(), the copy that knows the cluster backend; configURL is
\* getClusterAIConfig().baseURL
createAIProvider(e, configURL) ==
    IF \/ ToLowerCase(e.CLUSTER_AI_ENABLED) = S_true
       \/ TextOr(ToLowerCase(e.AI_PROVIDER), S_gemini) \in {S_clusterAi, S_clusterMcp}
    THEN ClusterAIProvider(configURL, TextOr(e.CLUSTER_AI_MODEL, S_qwenModel),
                           e.CLUSTER_AI_API_KEY, e)
    ELSE NamedProvider(TextOr(ToLowerCase(e.AI_PROVIDER), S_gemini), e)

\* createAIProvider(), the copy of src/lib/ai-provider/factory.ts
createAIProviderPlain(e) == NamedProvider(TextOr(ToLowerCase(e.AI_PROVIDER), S_gemini), e)

\* the copies a deployment can be built from
Builds ==
    { [factory |-> "cluster", discovery |-> "v1", cache |-> "guarded"],
      [factory |-> "cluster", discovery |-> "path", cache |-> "guarded"],
      [factory |-> "plain", discovery |-> "v1", cache |-> "guarded"] }

\* the factory of the build
BuildFactory(b, e) ==
    IF b.factory = "plain" THEN createAIProviderPlain(e)
    ELSE createAIProvider(e, IF b.discovery = "v1" THEN getClusterAIConfig(e)
                             ELSE getClusterAIConfigPath(e))

\* a plausible slip: every get constructs a provider
getAIProvider_alwaysCreates(instance, b, e) == BuildFactory(b, e)

\* getAIProvider(): the singleton, constructed on first use; a throw of the
\* factory leaves the slot as it was
getAIProvider(instance, b, e) ==
    IF instance.variant # "null" THEN [out |-> "return", inst |-> instance]
    ELSE BuildFactory(b, e)

\* an error object: who created it ("backend": the client library or the
\* service, "provider": a new Error(...) of this code), and the properties the
\* catch blocks read; status 0 and the empty text stand for an absent property
NoError == [origin |-> "none", name |-> "", status |-> 0, code |-> "", message |-> <<>>]

\* a call on an AI provider in flight: where it stands ("idle": none in
\* flight, "awaiting": the request is sent, "streaming": the stream is open),
\* the method, whether the timer of the method is armed, the chunks yielded
NoAICall == [pc |-> "idle", op |-> "none", timer |-> FALSE, chunks |-> 0]

\* the build of a deployment that knows the cluster backend
DefaultBuild == [factory |-> "cluster", discovery |-> "v1", cache |-> "guarded"]

----------------------------------------------------------------------------
(* Calls on one RedisProvider by a caller that awaits each call            *)

\* a trackEvent call in flight: where it stands ("idle": none in flight), its
\* arguments (an empty text: not supplied), the timestamp it read and what its
\* existence check answered
NoTrack ==
    [pc |-> "idle", id |-> <<>>, eventType |-> "visit", country |-> <<>>, device |-> <<>>,
     userAgent |-> <<>>, timestamp |-> 0, exists |-> FALSE]

\* a getAnalyticsData call in flight: where it stands, what its three reads
\* handed back, which of them the backend answered, the visitor set as it was
\* when read, and the path the call took ("empty", "full" or "error")
NoReport ==
    [pc |-> "idle", totalVisitors |-> JNull, totalQueries |-> JNull, visitorIds |-> <<>>,
     answered |-> [scard |-> FALSE, get |-> FALSE, smembers |-> FALSE], visitors |-> {},
     path |-> "none"]

\* the command of the provider that is in flight
NoCommand == [pc |-> "idle", op |-> "none", key |-> <<>>, arg |-> JNull]

\* no analytics call in flight (track and second: the two trackEvent calls
\* that may overlap), none made, no query event among them, no batch
\* rejected, the clock not yet advanced, no command of the provider in flight
NoCalls ==
    [track |-> NoTrack, second |-> NoTrack, report |-> NoReport, events |-> 0, queries |-> 0,
     failed |-> FALSE, ticks |-> 0, redis |-> NoCommand]

\* ret while no result is being delivered, and the fields every result has:
\* the method, its key, value, ttl and query arguments, the batch of an exec, the
\* store the call ran on, "return" or "throw", the value, how the client's
\* promise settled, (for get) the setex that the same caller had just awaited,
\* (for the analytics functions) the call as it stood when it settled, and
\* (for the AI functions) the provider handed back or called, the error
\* thrown, what settled the call and the error that was raised inside it,
\* (for the singleton getters) whether the slot was found empty and the cache
\* provider handed back, (for getRepoFileTree) the nodes fetched, the nodes
\* kept and the hidden files.
NoPrev == [op |-> "none", key |-> <<>>, arg |-> JNull, ttl |-> 0, q |-> <<>>]
None ==
    [op |-> "none", key |-> <<>>, arg |-> JNull, ttl |-> 0, q |-> <<>>, batch |-> <<>>, before |-> EmptyDb,
     out |-> "return", val |-> JUndefined, mode |-> "ok", prev |-> NoPrev,
     track |-> NoTrack, report |-> NoReport,
     ai |-> NoAI, error |-> NoError, cause |-> "none",
     raised |-> NoError, made |-> FALSE, cache |-> [variant |-> "null", redisUrl |-> <<>>],
     fetched |-> <<>>, tree |-> <<>>, hiddenFiles |-> <<>>]

MaxCount == 2
MaxBatch == 2
TTL_FILE == 3600

K_value == <<"k">>
K_counter == <<"c">>
K_set == <<"s">>
K_hash == <<"h">>
F_text == <<"f">>
M_one == <<"m", "1">>
M_two == <<"m", "2">>

V_num == JNum(7)
V_quote == JStr(<<"a", "\"">>)
V_nested == JObj(<< <<K_value, JArr(<<JNull, JBool(TRUE), JStr(<<"1">>)>>)>> >>)
ProviderValues == {V_num, V_quote, V_nested}
TtlInputs == {0, TTL_FILE}

\* every counter of the store is within the bound of the model
CountersWithin(d) ==
    /\ K_counter \in DOMAIN d.str => IntOfText(d.str[K_counter].text) <= MaxCount
    /\ \A key \in DOMAIN d.hash : \A i \in 1..Len(d.hash[key]) :
           IsIntText(d.hash[key][i][2]) => IntOfText(d.hash[key][i][2]) <= MaxCount

\* the caller has taken the previous result
Ready == ret.op = "none"

\* the call resolves or rejects: r is [db, out, val]
Deliver(r, result) ==
    /\ CountersWithin(r.db)
    /\ db' = r.db
    /\ ret' = [result EXCEPT !.before = db, !.out = r.out, !.val = r.val]
    /\ UNCHANGED <<redisUrl, clientMode, env, providerInstance, now, calls, build, aiProviderInstance, aiCall>>

\* the caller's continuation runs with the result
Resume ==
    /\ ret.op # "none"
    /\ ret' = None
    /\ UNCHANGED <<redisUrl, clientMode, db, env, providerInstance, now, calls, build, aiProviderInstance, aiCall>>

\* get(key), also as the call that directly follows an awaited setex
Get ==
    /\ Ready \/ ret.op = "setex"
    /\ \E key \in {K_value, K_counter}, mode \in Modes :
           Deliver(RedisGet(db, key, mode),
                   [None EXCEPT !.op = "get", !.key = key, !.mode = mode,
                                !.prev = IF ret.op = "setex" /\ ret.mode = "ok"
                                         THEN [op |-> "setex", key |-> ret.key,
                                               arg |-> ret.arg, ttl |-> ret.ttl, q |-> <<>>]
                                         ELSE NoPrev])

Set ==
    /\ Ready
    /\ \E value \in ProviderValues, ttl \in TtlInputs, mode \in Modes :
           Deliver(RedisSet(db, K_value, value, ttl, mode),
                   [None EXCEPT !.op = "set", !.key = K_value, !.arg = value, !.ttl = ttl,
                                !.mode = mode])

Setex ==
    /\ Ready
    /\ \E value \in ProviderValues, ttl \in TtlInputs, mode \in Modes :
           Deliver(RedisSetex(db, K_value, ttl, value, mode),
                   [None EXCEPT !.op = "setex", !.key = K_value, !.arg = value, !.ttl = ttl,
                                !.mode = mode])

Del ==
    /\ Ready
    /\ \E key \in {K_value, K_counter, K_set, K_hash}, mode \in Modes :
           Deliver(RedisDel(db, key, mode), [None EXCEPT !.op = "del", !.key = key, !.mode = mode])

Exists ==
    /\ Ready
    /\ \E key \in {K_value, K_hash}, mode \in Modes :
           Deliver(RedisExists(db, key, mode),
                   [None EXCEPT !.op = "exists", !.key = key, !.mode = mode])

Ping ==
    /\ Ready
    /\ \E mode \in Modes : Deliver(RedisPing(db, mode), [None EXCEPT !.op = "ping", !.mode = mode])

Sadd ==
    /\ Ready
    /\ \E members \in {{M_one}, {M_one, M_two}}, mode \in Modes :
           Deliver(RedisSadd(db, K_set, members, mode),
                   [None EXCEPT !.op = "sadd", !.key = K_set, !.mode = mode])

Smembers ==
    /\ Ready
    /\ \E order \in Orderings(SetOf(db, K_set)), mode \in Modes :
           Deliver(RedisSmembers(db, K_set, order, mode),
                   [None EXCEPT !.op = "smembers", !.key = K_set, !.mode = mode])

Scard ==
    /\ Ready
    /\ \E mode \in Modes :
           Deliver(RedisScard(db, K_set, mode),
                   [None EXCEPT !.op = "scard", !.key = K_set, !.mode = mode])

Hset ==
    /\ Ready
    /\ \E mode \in Modes :
           Deliver(RedisHset(db, K_hash, << <<F_text, V_quote>> >>, mode),
                   [None EXCEPT !.op = "hset", !.key = K_hash, !.mode = mode])

Hgetall ==
    /\ Ready
    /\ \E mode \in Modes :
           Deliver(RedisHgetall(db, K_hash, mode),
                   [None EXCEPT !.op = "hgetall", !.key = K_hash, !.mode = mode])

Hincrby ==
    /\ Ready
    /\ \E mode \in Modes :
           Deliver(RedisHincrby(db, K_hash, F_text, 1, mode),
                   [None EXCEPT !.op = "hincrby", !.key = K_hash, !.mode = mode])

Incr ==
    /\ Ready
    /\ \E mode \in Modes :
           Deliver(RedisIncr(db, K_counter, mode),
                   [None EXCEPT !.op = "incr", !.key = K_counter, !.mode = mode])

Keys ==
    /\ Ready
    /\ \E order \in Orderings(KeysOf(db)), mode \in Modes :
           Deliver(RedisKeys(db, S_star, order, mode), [None EXCEPT !.op = "keys", !.mode = mode])

\* the commands a batch is built from
PipeMenu ==
    { PipeSetex(K_value, TTL_FILE, V_num),
      PipeSadd(K_set, {M_one}),
      PipeHset(K_hash, << <<F_text, V_quote>> >>),
      PipeHincrby(K_hash, F_text, 1),
      PipeIncr(K_counter),
      PipeHgetall(K_hash) }

Batches == UNION {[1..n -> PipeMenu] : n \in 0..MaxBatch}

\* pipeline(), the queueing calls and exec()
Exec ==
    /\ Ready
    /\ \E batch \in Batches, mode \in Modes :
           Deliver(RedisExec(db, batch, mode),
                   [None EXCEPT !.op = "exec", !.batch = batch, !.mode = mode])

\* the server drops a key whose time to live has run out
Expire ==
    /\ Ready
    /\ \E key \in DOMAIN db.str :
           /\ db.str[key].ttl
           /\ db' = [db EXCEPT !.str = Drop(@, key)]
    /\ UNCHANGED <<redisUrl, clientMode, ret, env, providerInstance, now, calls, build, aiProviderInstance, aiCall>>

InitProvider ==
    /\ redisUrl = DocStandaloneUrl
    /\ clientMode = "cluster"
    /\ db = EmptyDb
    /\ ret = None
    /\ env = RedisEnv
    /\ providerInstance = "redis"
    /\ now = 0
    /\ calls = NoCalls
    /\ build = DefaultBuild
    /\ aiProviderInstance = NoAI
    /\ aiCall = NoAICall

NextProvider ==
    \/ Get \/ Set \/ Setex \/ Del \/ Exists \/ Ping
    \/ Sadd \/ Smembers \/ Scard
    \/ Hset \/ Hgetall \/ Hincrby \/ Incr \/ Keys
    \/ Exec \/ Expire \/ Resume

SpecProvider == InitProvider /\ [][NextProvider]_vars

\* the value each method hands back when its command fails
DegradedValue(op) ==
    CASE op = "get" -> JNull
      [] op \in {"exists", "ping"} -> JBool(FALSE)
      [] op \in {"sadd", "scard", "incr", "hincrby"} -> JNum(0)
      [] op \in {"smembers", "keys"} -> JArr(<<>>)
      [] op = "hgetall" -> JObj(<<>>)
      [] OTHER -> JUndefined

ProviderOps ==
    {"get", "set", "setex", "del", "exists", "ping", "sadd", "smembers", "scard",
     "hset", "hgetall", "hincrby", "incr", "keys", "exec"}

\* C1: when the command of a call is rejected or never answered, the call
\* resolves without throwing, leaves the store as it was, and every method
\* other than exec hands back its degraded value.
C1_UnreachableDegrades ==
    (ret.op \in ProviderOps /\ ret.mode # "ok") =>
        /\ ret.out = "return"
        /\ db = ret.before
        /\ ret.op # "exec" => ret.val = DegradedValue(ret.op)

\* C3: a get that directly follows an answered setex of the same key with a
\* positive ttl, itself answered, returns a value equal to the one written.
C3_SetexThenGet ==
    (/\ ret.op = "get" /\ ret.mode = "ok"
     /\ ret.prev.op = "setex" /\ ret.prev.key = ret.key /\ ret.prev.ttl > 0) =>
        ret.val = ret.prev.arg

\* a string with a quote character went through setex and get
C3_Witness ==
    /\ ret.op = "get" /\ ret.mode = "ok"
    /\ ret.prev.op = "setex" /\ ret.prev.key = ret.key /\ ret.prev.ttl > 0
    /\ ret.val = V_quote

\* the store after the first n commands of a batch, and what exec hands back
\* for command i: the server's reply, a hash reply with its values parsed
RECURSIVE StateAfter(_, _, _)
StateAfter(d, batch, n) ==
    IF n = 0 THEN d ELSE ServerApply(StateAfter(d, batch, n - 1), batch[n]).db

ResultOf(d, batch, i) ==
    LET reply == ServerApply(StateAfter(d, batch, i - 1), batch[i]).res
    IN  IF reply.t = "obj" THEN ParseHash(reply) ELSE reply

----------------------------------------------------------------------------
(* The caching helpers                                                     *)

TTL_REPO == 900
TTL_PROFILE == 1800
TTL_QUERY == 86400

WhiteSpace == {" ", "\t", "\n", "\r"}

\* s.trim()
Trim(s) ==
    LET inner == {i \in 1..Len(s) : s[i] \notin WhiteSpace}
    IN  IF inner = {} THEN <<>>
        ELSE SubSeq(s, CHOOSE i \in inner : \A j \in inner : i <= j,
                       CHOOSE i \in inner : \A j \in inner : i >= j)

\* a plausible slip: the query is lower-cased and not trimmed
NormalizeQuery_noTrim(query) == ToLowerCase(query)

\* query.toLowerCase().trim()
NormalizeQuery(query) == Trim(ToLowerCase(query))

S_file == <<"f", "i", "l", "e", ":">>
S_repo == <<"r", "e", "p", "o", ":">>
S_profile == <<"p", "r", "o", "f", "i", "l", "e", ":">>
S_tree == <<"t", "r", "e", "e", ":">>
S_query == <<"q", "u", "e", "r", "y", ":">>

FileKey(owner, repo, path, sha) == S_file \o owner \o <<"/">> \o repo \o <<":">> \o path \o <<":">> \o sha
RepoKey(owner, repo) == S_repo \o owner \o <<"/">> \o repo
ProfileKey(username) == S_profile \o username
TreeKey(owner, repo, branch) == S_tree \o owner \o <<"/">> \o repo \o <<":">> \o branch
QueryKey(owner, repo, query) == S_query \o owner \o <<"/">> \o repo \o <<":">> \o NormalizeQuery(query)

\* VercelKVProvider: the hosted store is reached through the kv client, which
\* is no part of the source: whether it answers, and what a get answers, are inputs
VercelGet(d, mode, reply) == IF ClientFails(mode) THEN Return(d, JNull) ELSE Return(d, reply)
VercelSetex(d, mode) == Return(d, JUndefined)

\* cache.get(key) and cache.setex(key, ttl, value) on the variant in use
CacheGet(variant, d, key, mode, reply) ==
    IF variant = "redis" THEN RedisGet(d, key, mode) ELSE VercelGet(d, mode, reply)
CacheSetex(variant, d, key, ttl, value, mode) ==
    IF variant = "redis" THEN RedisSetex(d, key, ttl, value, mode) ELSE VercelSetex(d, mode)

\* safeCacheOperation(operation): a rejection becomes null
safeCacheOperation(r) == IF r.out = "throw" THEN Return(r.db, JNull) ELSE r

\* The body the setters share: the provider is obtained, then setex runs
\* guarded. The result is [db, out, val, instance].
HelperSetex(instance, e, d, key, ttl, value, mode) ==
    LET cache == getCacheProvider(instance, e)
    IN  IF cache.out = "throw"
        THEN [db |-> d, out |-> "throw", val |-> JUndefined, instance |-> instance]
        ELSE [db |-> safeCacheOperation(CacheSetex(cache.variant, d, key, ttl, value, mode)).db,
              out |-> "return", val |-> JUndefined, instance |-> cache.variant]

\* The body the getters share: the provider is obtained, then get runs guarded.
HelperGet(instance, e, d, key, mode, reply) ==
    LET cache == getCacheProvider(instance, e)
        r == safeCacheOperation(CacheGet(cache.variant, d, key, mode, reply))
    IN  IF cache.out = "throw"
        THEN [db |-> d, out |-> "throw", val |-> JUndefined, instance |-> instance]
        ELSE [db |-> r.db, out |-> "return", val |-> r.val, instance |-> cache.variant]

cacheFile(instance, e, d, owner, repo, path, sha, content, mode) ==
    HelperSetex(instance, e, d, FileKey(owner, repo, path, sha), TTL_FILE, JStr(content), mode)
getCachedFile(instance, e, d, owner, repo, path, sha, mode, reply) ==
    HelperGet(instance, e, d, FileKey(owner, repo, path, sha), mode, reply)
cacheRepoMetadata(instance, e, d, owner, repo, data, ttl, mode) ==
    HelperSetex(instance, e, d, RepoKey(owner, repo), ttl, data, mode)
getCachedRepoMetadata(instance, e, d, owner, repo, mode, reply) ==
    HelperGet(instance, e, d, RepoKey(owner, repo), mode, reply)
cacheProfileData(instance, e, d, username, data, ttl, mode) ==
    HelperSetex(instance, e, d, ProfileKey(username), ttl, data, mode)
getCachedProfileData(instance, e, d, username, mode, reply) ==
    HelperGet(instance, e, d, ProfileKey(username), mode, reply)
cacheFileTree(instance, e, d, owner, repo, branch, tree, mode) ==
    HelperSetex(instance, e, d, TreeKey(owner, repo, branch), TTL_REPO, tree, mode)
getCachedFileTree(instance, e, d, owner, repo, branch, mode, reply) ==
    HelperGet(instance, e, d, TreeKey(owner, repo, branch), mode, reply)
cacheQuerySelection(instance, e, d, owner, repo, query, files, mode) ==
    HelperSetex(instance, e, d, QueryKey(owner, repo, query), TTL_QUERY, files, mode)
getCachedQuerySelection(instance, e, d, owner, repo, query, mode, reply) ==
    HelperGet(instance, e, d, QueryKey(owner, repo, query), mode, reply)

\* the arguments tried
T_owner == <<"o">>
T_repo == <<"r">>
T_path == <<"p">>
T_sha == <<"s">>
T_content == <<"c">>
T_username == <<"u">>
T_branch == <<"b">>
Queries == {<<"q">>, <<" ", "Q">>, <<"q", "\t">>, <<"q", " ", "q">>}
Files1 == JArr(<<JStr(<<"a", ".", "t", "s">>)>>)
Files2 == JArr(<<JStr(<<"a", ".", "t", "s">>), JStr(<<"b", ".", "t", "s">>)>>)
HostedReplies == {JNull, V_num}

EnvInputs ==
    { RedisEnv,
      [NoEnv EXCEPT !.CACHE_PROVIDER = S_redis],
      [NoEnv EXCEPT !.CACHE_PROVIDER = S_RedisUpper, !.REDIS_URL = DocStandaloneUrl],
      [NoEnv EXCEPT !.CACHE_PROVIDER = S_vercelKv, !.KV_REST_API_URL = S_kvUrl,
                    !.KV_REST_API_TOKEN = S_kvToken],
      NoEnv }

\* the helper settles: r is [db, out, val, instance]; a Redis variant built by
\* this call was constructed from REDIS_URL
DeliverHelper(r, result) ==
    /\ db' = r.db
    /\ providerInstance' = r.instance
    /\ ret' = [result EXCEPT !.before = db, !.out = r.out, !.val = r.val]
    /\ IF providerInstance = "null" /\ r.instance = "redis"
       THEN /\ redisUrl' = env.REDIS_URL
            /\ clientMode' = IF isClusterConnection(env.REDIS_URL) THEN "cluster" ELSE "standalone"
       ELSE UNCHANGED <<redisUrl, clientMode>>
    /\ UNCHANGED <<env, now, calls, build, aiProviderInstance, aiCall>>

CallCacheFile ==
    /\ Ready
    /\ \E mode \in Modes :
           DeliverHelper(cacheFile(providerInstance, env, db, T_owner, T_repo, T_path, T_sha,
                                   T_content, mode),
                         [None EXCEPT !.op = "cacheFile", !.key = FileKey(T_owner, T_repo, T_path, T_sha),
                                      !.arg = JStr(T_content), !.ttl = TTL_FILE, !.mode = mode])

CallGetCachedFile ==
    /\ Ready
    /\ \E mode \in Modes, reply \in HostedReplies :
           DeliverHelper(getCachedFile(providerInstance, env, db, T_owner, T_repo, T_path, T_sha,
                                       mode, reply),
                         [None EXCEPT !.op = "getCachedFile",
                                      !.key = FileKey(T_owner, T_repo, T_path, T_sha), !.mode = mode])

CallCacheRepoMetadata ==
    /\ Ready
    /\ \E ttl \in {TTL_REPO, 0}, mode \in Modes :
           DeliverHelper(cacheRepoMetadata(providerInstance, env, db, T_owner, T_repo, V_nested,
                                           ttl, mode),
                         [None EXCEPT !.op = "cacheRepoMetadata", !.key = RepoKey(T_owner, T_repo),
                                      !.arg = V_nested, !.ttl = ttl, !.mode = mode])

CallGetCachedRepoMetadata ==
    /\ Ready
    /\ \E mode \in Modes, reply \in HostedReplies :
           DeliverHelper(getCachedRepoMetadata(providerInstance, env, db, T_owner, T_repo, mode, reply),
                         [None EXCEPT !.op = "getCachedRepoMetadata",
                                      !.key = RepoKey(T_owner, T_repo), !.mode = mode])

CallCacheProfileData ==
    /\ Ready
    /\ \E mode \in Modes :
           DeliverHelper(cacheProfileData(providerInstance, env, db, T_username, V_quote,
                                          TTL_PROFILE, mode),
                         [None EXCEPT !.op = "cacheProfileData", !.key = ProfileKey(T_username),
                                      !.arg = V_quote, !.ttl = TTL_PROFILE, !.mode = mode])

CallGetCachedProfileData ==
    /\ Ready
    /\ \E mode \in Modes, reply \in HostedReplies :
           DeliverHelper(getCachedProfileData(providerInstance, env, db, T_username, mode, reply),
                         [None EXCEPT !.op = "getCachedProfileData",
                                      !.key = ProfileKey(T_username), !.mode = mode])

CallCacheFileTree ==
    /\ Ready
    /\ \E mode \in Modes :
           DeliverHelper(cacheFileTree(providerInstance, env, db, T_owner, T_repo, T_branch,
                                       JArr(<<V_nested>>), mode),
                         [None EXCEPT !.op = "cacheFileTree",
                                      !.key = TreeKey(T_owner, T_repo, T_branch),
                                      !.arg = JArr(<<V_nested>>), !.ttl = TTL_REPO, !.mode = mode])

CallGetCachedFileTree ==
    /\ Ready
    /\ \E mode \in Modes, reply \in HostedReplies :
           DeliverHelper(getCachedFileTree(providerInstance, env, db, T_owner, T_repo, T_branch,
                                           mode, reply),
                         [None EXCEPT !.op = "getCachedFileTree",
                                      !.key = TreeKey(T_owner, T_repo, T_branch), !.mode = mode])

CallCacheQuerySelection ==
    /\ Ready
    /\ \E query \in Queries, files \in {Files1, Files2}, mode \in Modes :
           DeliverHelper(cacheQuerySelection(providerInstance, env, db, T_owner, T_repo, query,
                                             files, mode),
                         [None EXCEPT !.op = "cacheQuerySelection",
                                      !.key = QueryKey(T_owner, T_repo, query), !.q = query,
                                      !.arg = files, !.ttl = TTL_QUERY, !.mode = mode])

\* getCachedQuerySelection, also as the call that directly follows an awaited
\* cacheQuerySelection
CallGetCachedQuerySelection ==
    /\ Ready \/ (ret.op = "cacheQuerySelection" /\ ret.mode = "ok" /\ ret.out = "return")
    /\ \E query \in Queries, mode \in Modes, reply \in HostedReplies :
           DeliverHelper(getCachedQuerySelection(providerInstance, env, db, T_owner, T_repo, query,
                                                 mode, reply),
                         [None EXCEPT !.op = "getCachedQuerySelection",
                                      !.key = QueryKey(T_owner, T_repo, query), !.q = query,
                                      !.mode = mode,
                                      !.prev = IF ret.op = "cacheQuerySelection"
                                               THEN [op |-> ret.op, key |-> ret.key, arg |-> ret.arg,
                                                     ttl |-> ret.ttl, q |-> ret.q]
                                               ELSE NoPrev])

\* resetCacheProvider()
ResetCacheProvider ==
    /\ Ready
    /\ providerInstance # "null"
    /\ providerInstance' = "null"
    /\ UNCHANGED <<redisUrl, clientMode, db, ret, env, now, calls, build, aiProviderInstance, aiCall>>

\* the configuration variables are changed
Configure ==
    /\ Ready
    /\ env' \in EnvInputs \ {env}
    /\ UNCHANGED <<redisUrl, clientMode, db, ret, providerInstance, now, calls, build, aiProviderInstance, aiCall>>

\* a configured process that has not yet used the cache
InitHelpers ==
    /\ redisUrl = DocStandaloneUrl
    /\ clientMode = "none"
    /\ db = EmptyDb
    /\ ret = None
    /\ env = RedisEnv
    /\ providerInstance = "null"
    /\ now = 0
    /\ calls = NoCalls
    /\ build = DefaultBuild
    /\ aiProviderInstance = NoAI
    /\ aiCall = NoAICall

NextHelpers ==
    \/ CallCacheFile \/ CallGetCachedFile
    \/ CallCacheRepoMetadata \/ CallGetCachedRepoMetadata
    \/ CallCacheProfileData \/ CallGetCachedProfileData
    \/ CallCacheFileTree \/ CallGetCachedFileTree
    \/ CallCacheQuerySelection \/ CallGetCachedQuerySelection
    \/ ResetCacheProvider \/ Configure \/ Expire \/ Resume

SpecHelpers == InitHelpers /\ [][NextHelpers]_vars

HelperSetters ==
    {"cacheFile", "cacheRepoMetadata", "cacheProfileData", "cacheFileTree", "cacheQuerySelection"}
HelperGetters ==
    {"getCachedFile", "getCachedRepoMetadata", "getCachedProfileData", "getCachedFileTree",
     "getCachedQuerySelection"}

\* C2: no caching helper throws to its caller, whatever the configuration and
\* whatever the backend does: a setter resolves to nothing, and a getter whose
\* command failed resolves to null.
C2_HelpersNeverThrow ==
    (ret.op \in HelperSetters \cup HelperGetters) =>
        /\ ret.out = "return"
        /\ ret.op \in HelperSetters => ret.val = JUndefined
        /\ (ret.op \in HelperGetters /\ ret.mode # "ok") => ret.val = JNull

\* two characters are the same letter in either case
SameLetter(a, b) == a = b \/ \E j \in 1..26 : {a, b} = {UpperSeq[j], LowerSeq[j]}

\* positions i..j of q hold q without its surrounding white space
IsCore(q, i, j) ==
    /\ \A k \in 1..Len(q) : (k < i \/ k > j) => q[k] \in WhiteSpace
    /\ IF i > j THEN j = i - 1 ELSE q[i] \notin WhiteSpace /\ q[j] \notin WhiteSpace

\* q1 and q2 are equal up to letter case and surrounding white space
SameQuery(q1, q2) ==
    \E i1 \in 1..(Len(q1) + 1), j1 \in 0..Len(q1), i2 \in 1..(Len(q2) + 1), j2 \in 0..Len(q2) :
        /\ IsCore(q1, i1, j1) /\ IsCore(q2, i2, j2)
        /\ j1 - i1 = j2 - i2
        /\ \A k \in 0..(j1 - i1) : SameLetter(q1[i1 + k], q2[i2 + k])

\* C9: on the Redis variant, a getCachedQuerySelection that directly follows
\* an answered cacheQuerySelection for the same owner and repo, itself
\* answered, reads the entry just written when the two queries are equal up
\* to letter case and surrounding white space, and reads another key otherwise.
C9_QueryNormalization ==
    (/\ ret.op = "getCachedQuerySelection" /\ ret.out = "return" /\ ret.mode = "ok"
     /\ providerInstance = "redis"
     /\ ret.prev.op = "cacheQuerySelection") =>
        IF SameQuery(ret.prev.q, ret.q)
        THEN ret.key = ret.prev.key /\ ret.val = ret.prev.arg
        ELSE ret.key # ret.prev.key

\* a query written in upper case with a leading blank was read back in lower
\* case with a trailing tab
C9_Witness ==
    /\ ret.op = "getCachedQuerySelection" /\ ret.out = "return" /\ ret.mode = "ok"
    /\ providerInstance = "redis"
    /\ ret.prev.op = "cacheQuerySelection"
    /\ ret.prev.q = <<" ", "Q">> /\ ret.q = <<"q", "\t">>
    /\ ret.val = Files2

----------------------------------------------------------------------------
(* Analytics: trackEvent and getAnalyticsData                              *)

DayMs == 86400000
MaxEvents == 2
MaxTicks == 2

\* the clock advances by half a day at a time
ClockSteps == {DayMs \div 2}

S_visitors == <<"v", "i", "s", "i", "t", "o", "r", "s">>
S_visitorPrefix == <<"v", "i", "s", "i", "t", "o", "r", ":">>
S_queriesTotal == <<"q", "u", "e", "r", "i", "e", "s", ":", "t", "o", "t", "a", "l">>
S_statsCountry == <<"s", "t", "a", "t", "s", ":", "c", "o", "u", "n", "t", "r", "y", ":">>
S_statsDevice == <<"s", "t", "a", "t", "s", ":", "d", "e", "v", "i", "c", "e", ":">>
S_firstSeen == <<"f", "i", "r", "s", "t", "S", "e", "e", "n">>
S_lastSeen == <<"l", "a", "s", "t", "S", "e", "e", "n">>
S_country == <<"c", "o", "u", "n", "t", "r", "y">>
S_device == <<"d", "e", "v", "i", "c", "e">>
S_userAgent == <<"u", "s", "e", "r", "A", "g", "e", "n", "t">>
S_queryCount == <<"q", "u", "e", "r", "y", "C", "o", "u", "n", "t">>
S_Unknown == <<"U", "n", "k", "n", "o", "w", "n">>
S_unknown == <<"u", "n", "k", "n", "o", "w", "n">>
S_mobile == <<"m", "o", "b", "i", "l", "e">>
S_desktop == <<"d", "e", "s", "k", "t", "o", "p">>
S_id == <<"i", "d">>
S_totalVisitors == <<"t", "o", "t", "a", "l", "V", "i", "s", "i", "t", "o", "r", "s">>
S_totalQueries == <<"t", "o", "t", "a", "l", "Q", "u", "e", "r", "i", "e", "s">>
S_activeUsers24h == <<"a", "c", "t", "i", "v", "e", "U", "s", "e", "r", "s", "2", "4", "h">>
S_deviceStats == <<"d", "e", "v", "i", "c", "e", "S", "t", "a", "t", "s">>
S_countryStats == <<"c", "o", "u", "n", "t", "r", "y", "S", "t", "a", "t", "s">>
S_recentVisitors == <<"r", "e", "c", "e", "n", "t", "V", "i", "s", "i", "t", "o", "r", "s">>

VisitorKey(visitorId) == S_visitorPrefix \o visitorId

\* object[name], undefined when the object has no such property
ObjGet(x, name) ==
    IF \E i \in 1..Len(x.o) : x.o[i][1] = name
    THEN x.o[CHOOSE i \in 1..Len(x.o) : x.o[i][1] = name][2]
    ELSE JUndefined

\* the value counts as false in a condition
Falsy(v) ==
    \/ v.t \in {"null", "undefined"}
    \/ v.t = "bool" /\ ~v.b
    \/ v.t = "num" /\ v.n = 0
    \/ v.t = "str" /\ v.s = <<>>

\* v || fallback
OrElse(v, fallback) == IF Falsy(v) THEN fallback ELSE v

\* String(v)
RECURSIVE StringOf(_)
RECURSIVE JoinItems(_)
StringOf(v) ==
    CASE v.t = "num" -> IntToText(v.n)
      [] v.t = "str" -> v.s
      [] v.t = "bool" -> IF v.b THEN <<"t", "r", "u", "e">> ELSE <<"f", "a", "l", "s", "e">>
      [] v.t = "null" -> <<"n", "u", "l", "l">>
      [] v.t = "undefined" -> <<"u", "n", "d", "e", "f", "i", "n", "e", "d">>
      [] v.t = "arr" -> JoinItems(v.a)
      [] v.t = "obj" -> <<"[", "o", "b", "j", "e", "c", "t", " ", "O", "b", "j", "e", "c", "t", "]">>

JoinItems(a) ==
    IF Len(a) = 0 THEN <<>>
    ELSE (IF Head(a).t \in {"null", "undefined"} THEN <<>> ELSE StringOf(Head(a)))
         \o (IF Len(a) > 1 THEN <<",">> \o JoinItems(Tail(a)) ELSE <<>>)

\* the text from its first character that is not white space on
SkipWhiteSpace(text) ==
    IF \A i \in 1..Len(text) : text[i] \in WhiteSpace THEN <<>>
    ELSE SubSeq(text, CHOOSE i \in 1..Len(text) :
                          text[i] \notin WhiteSpace /\ \A j \in 1..(i - 1) : text[j] \in WhiteSpace,
                Len(text))

\* the number of decimal digits the text starts with
DigitPrefix(body) ==
    IF \E i \in 1..Len(body) : body[i] \notin Digits
    THEN (CHOOSE i \in 1..Len(body) :
              body[i] \notin Digits /\ \A j \in 1..(i - 1) : body[j] \in Digits) - 1
    ELSE Len(body)

\* the digits of a number whose sign was read: [ok, n], ok = FALSE standing for NaN
ParseDigits(neg, body, n) ==
    IF n = 0 THEN [ok |-> FALSE, n |-> 0]
    ELSE [ok |-> TRUE,
          n |-> IF neg THEN 0 - DigitsToNat(SubSeq(body, 1, n)) ELSE DigitsToNat(SubSeq(body, 1, n))]

\* the number after an optional sign
ParseSigned(signed) ==
    IF Len(signed) > 0 /\ Head(signed) \in {"-", "+"}
    THEN ParseDigits(Head(signed) = "-", Tail(signed), DigitPrefix(Tail(signed)))
    ELSE ParseDigits(FALSE, signed, DigitPrefix(signed))

\* parseInt(text): leading white space, a sign, then decimal digits
ParseInt(text) == ParseSigned(SkipWhiteSpace(text))

\* parsed || fallback, NaN and 0 both giving way to the fallback
NumberOr(parsed, fallback) == IF parsed.ok /\ parsed.n # 0 THEN parsed.n ELSE fallback

\* typeof v === 'number' ? v : parseInt(String(v || fallback)) || fallback
NumberField(v, fallback) ==
    IF v.t = "num" THEN v.n
    ELSE NumberOr(ParseInt(StringOf(OrElse(v, JNum(fallback)))), fallback)

\* a plausible slip: the counter of the visitor is bumped by every event
TrackBatch_countsVisits(t) ==
    LET visitorKey == VisitorKey(t.id)
        static == << <<S_firstSeen, JNum(t.timestamp)>>,
                     <<S_country, JStr(IF t.country # <<>> THEN t.country ELSE S_Unknown)>>,
                     <<S_device, JStr(IF t.device # <<>> THEN t.device ELSE S_unknown)>>,
                     <<S_userAgent, JStr(t.userAgent)>> >>
        dynamic == << <<S_lastSeen, JNum(t.timestamp)>> >>
                   \o (IF t.country # <<>> THEN << <<S_country, JStr(t.country)>> >> ELSE <<>>)
                   \o (IF t.device # <<>> THEN << <<S_device, JStr(t.device)>> >> ELSE <<>>)
    IN  <<PipeSadd(S_visitors, {t.id})>>
        \o (IF ~t.exists THEN <<PipeHset(visitorKey, static)>> ELSE <<>>)
        \o <<PipeHset(visitorKey, dynamic)>>
        \o (IF t.eventType = "query" THEN <<PipeIncr(S_queriesTotal)>> ELSE <<>>)
        \o <<PipeHincrby(visitorKey, S_queryCount, 1)>>
        \o (IF t.country # <<>> THEN <<PipeIncr(S_statsCountry \o t.country)>> ELSE <<>>)
        \o (IF t.device # <<>> THEN <<PipeIncr(S_statsDevice \o t.device)>> ELSE <<>>)

\* the commands trackEvent queues, t being the call with its existence check answered
TrackBatch(t) ==
    LET visitorKey == VisitorKey(t.id)
        static == << <<S_firstSeen, JNum(t.timestamp)>>,
                     <<S_country, JStr(IF t.country # <<>> THEN t.country ELSE S_Unknown)>>,
                     <<S_device, JStr(IF t.device # <<>> THEN t.device ELSE S_unknown)>>,
                     <<S_userAgent, JStr(t.userAgent)>> >>
        dynamic == << <<S_lastSeen, JNum(t.timestamp)>> >>
                   \o (IF t.country # <<>> THEN << <<S_country, JStr(t.country)>> >> ELSE <<>>)
                   \o (IF t.device # <<>> THEN << <<S_device, JStr(t.device)>> >> ELSE <<>>)
    IN  <<PipeSadd(S_visitors, {t.id})>>
        \o (IF ~t.exists THEN <<PipeHset(visitorKey, static)>> ELSE <<>>)
        \o <<PipeHset(visitorKey, dynamic)>>
        \o (IF t.eventType = "query"
            THEN <<PipeIncr(S_queriesTotal), PipeHincrby(visitorKey, S_queryCount, 1)>>
            ELSE <<>>)
        \o (IF t.country # <<>> THEN <<PipeIncr(S_statsCountry \o t.country)>> ELSE <<>>)
        \o (IF t.device # <<>> THEN <<PipeIncr(S_statsDevice \o t.device)>> ELSE <<>>)

\* the snapshot getAnalyticsData returns
Snapshot(totalVisitors, totalQueries, activeUsers24h, deviceStats, countryStats, recentVisitors) ==
    JObj(<< <<S_totalVisitors, totalVisitors>>,
            <<S_totalQueries, totalQueries>>,
            <<S_activeUsers24h, activeUsers24h>>,
            <<S_deviceStats, deviceStats>>,
            <<S_countryStats, countryStats>>,
            <<S_recentVisitors, recentVisitors>> >>)

\* the snapshot of the catch block
ZeroSnapshot == Snapshot(JNum(0), JNum(0), JNum(0), JObj(<<>>), JObj(<<>>), JArr(<<>>))

\* a plausible slip: the early return zeroes the query counter as well
EmptySnapshot_zeroQueries(totalQueries) ==
    Snapshot(JNum(0), JNum(0), JNum(0), JObj(<<>>), JObj(<<>>), JArr(<<>>))

\* the snapshot of the early return for an empty list of visitor ids
EmptySnapshot(totalQueries) ==
    Snapshot(JNum(0), OrElse(totalQueries, JNum(0)), JNum(0), JObj(<<>>), JObj(<<>>), JArr(<<>>))

\* the record built for one visitor from its parsed hash, t being Date.now()
VisitorOf(visitorId, details, t) ==
    JObj(<< <<S_id, JStr(visitorId)>>,
            <<S_country, OrElse(ObjGet(details, S_country), JStr(S_Unknown))>>,
            <<S_device, OrElse(ObjGet(details, S_device), JStr(S_unknown))>>,
            <<S_lastSeen, JNum(NumberField(ObjGet(details, S_lastSeen), t))>>,
            <<S_queryCount, JNum(NumberField(ObjGet(details, S_queryCount), 0))>>,
            <<S_firstSeen, JNum(NumberField(ObjGet(details, S_firstSeen), t))>> >>)

\* a plausible slip: a visitor last seen exactly a day ago still counts
IsActive_inclusive(lastSeen, t) == lastSeen >= t - DayMs

\* visitor.lastSeen > oneDayAgo
IsActive(lastSeen, t) == lastSeen > t - DayMs

\* stats[name] = (stats[name] || 0) + 1
StatsBump(stats, name) ==
    IF \E i \in 1..Len(stats.o) : stats.o[i][1] = name
    THEN JObj([i \in 1..Len(stats.o) |->
                  IF stats.o[i][1] = name
                  THEN <<name, JNum(OrElse(stats.o[i][2], JNum(0)).n + 1)>>
                  ELSE stats.o[i]])
    ELSE JObj(Append(stats.o, <<name, JNum(1)>>))

\* the body of the forEach callback for a visitor that is not skipped: acc is
\* [recent, active, deviceStats, countryStats]
Accumulate(acc, visitor, t) ==
    [recent |-> Append(acc.recent, visitor),
     active |-> IF IsActive(ObjGet(visitor, S_lastSeen).n, t) THEN acc.active + 1 ELSE acc.active,
     deviceStats |-> StatsBump(acc.deviceStats,
                               StringOf(OrElse(ObjGet(visitor, S_device), JStr(S_unknown)))),
     countryStats |-> StatsBump(acc.countryStats,
                                StringOf(OrElse(ObjGet(visitor, S_country), JStr(S_Unknown))))]

\* visitorsDetails.forEach(...)
RECURSIVE ProcessVisitors(_, _, _, _, _)
ProcessVisitors(visitorsDetails, visitorIds, index, t, acc) ==
    IF index > Len(visitorsDetails) THEN acc
    ELSE IF Falsy(visitorsDetails[index]) \/ index > Len(visitorIds) \/ visitorIds[index] = <<>>
    THEN ProcessVisitors(visitorsDetails, visitorIds, index + 1, t, acc)
    ELSE ProcessVisitors(visitorsDetails, visitorIds, index + 1, t,
             Accumulate(acc, VisitorOf(visitorIds[index], visitorsDetails[index], t), t))

\* a plausible slip: the comparator sorts by lastSeen ascending
KeepsBefore_ascending(a, b) == ObjGet(a, S_lastSeen).n - ObjGet(b, S_lastSeen).n <= 0

\* the comparator (a, b) => b.lastSeen - a.lastSeen leaves a before b
KeepsBefore(a, b) == ObjGet(b, S_lastSeen).n - ObjGet(a, S_lastSeen).n <= 0

\* recentVisitors.sort(comparator): the sort is stable
RECURSIVE InsertVisitor(_, _)
InsertVisitor(sorted, visitor) ==
    IF Len(sorted) = 0 THEN <<visitor>>
    ELSE IF KeepsBefore(Head(sorted), visitor)
    THEN <<Head(sorted)>> \o InsertVisitor(Tail(sorted), visitor)
    ELSE <<visitor>> \o sorted

RECURSIVE SortVisitors(_)
SortVisitors(visitors) ==
    IF Len(visitors) = 0 THEN <<>>
    ELSE InsertVisitor(SortVisitors(SubSeq(visitors, 1, Len(visitors) - 1)), visitors[Len(visitors)])

\* the report built from the details of the visitors
FullSnapshot(totalVisitors, totalQueries, visitorIds, visitorsDetails, t) ==
    LET acc == ProcessVisitors(visitorsDetails, visitorIds, 1, t,
                   [recent |-> <<>>, active |-> 0,
                    deviceStats |-> JObj(<< <<S_mobile, JNum(0)>>, <<S_desktop, JNum(0)>>,
                                            <<S_unknown, JNum(0)>> >>),
                    countryStats |-> JObj(<<>>)])
    IN  Snapshot(OrElse(totalVisitors, JNum(0)), OrElse(totalQueries, JNum(0)), JNum(acc.active),
                 acc.deviceStats, acc.countryStats, JArr(SortVisitors(acc.recent)))

\* the arguments tried
VisitorIds == {<<"a">>, <<"b">>}
S_US == <<"U", "S">>
S_DE == <<"D", "E">>
EventInputs ==
    { [eventType |-> "query", country |-> S_US, device |-> S_mobile, userAgent |-> <<>>],
      [eventType |-> "visit", country |-> S_DE, device |-> <<>>, userAgent |-> <<>>],
      [eventType |-> "visit", country |-> <<>>, device |-> <<>>, userAgent |-> <<>>] }

\* a plausible slip: the catch block logs the failure and throws it again
Swallow_rethrows(r, fallback) ==
    [out |-> r.out, val |-> IF r.out = "throw" THEN JUndefined ELSE r.val]

\* try { ... } catch (error) { console.error(...); return fallback }: r is what
\* the body did, [out, val]
Swallow(r, fallback) ==
    [out |-> "return", val |-> IF r.out = "throw" THEN fallback ELSE r.val]

\* what a body did
Done(x) == [out |-> "return", val |-> x]
Failed == [out |-> "throw", val |-> JUndefined]

\* getCacheProvider() inside a function: the slot, and the connection of a
\* Redis provider that is constructed now
ObtainCacheProvider ==
    /\ providerInstance' = IF getCacheProvider(providerInstance, env).out = "throw"
                           THEN providerInstance
                           ELSE getCacheProvider(providerInstance, env).variant
    /\ IF providerInstance = "null" /\ getCacheProvider(providerInstance, env).out = "return"
          /\ getCacheProvider(providerInstance, env).variant = "redis"
       THEN /\ redisUrl' = env.REDIS_URL
            /\ clientMode' = IF isClusterConnection(env.REDIS_URL) THEN "cluster" ELSE "standalone"
       ELSE UNCHANGED <<redisUrl, clientMode>>

\* trackEvent up to its first await: the provider is obtained, the clock is
\* read, sadd is queued and the existence check is sent; a throw of the
\* factory is caught and the call resolves
TrackBegin ==
    /\ Ready
    /\ calls.track.pc = "idle" /\ calls.report.pc = "idle"
    /\ calls.events < MaxEvents
    /\ \E visitorId \in VisitorIds, event \in EventInputs :
           LET call == [pc |-> "exists", id |-> visitorId, eventType |-> event.eventType,
                        country |-> event.country, device |-> event.device,
                        userAgent |-> event.userAgent, timestamp |-> now, exists |-> FALSE]
           IN  IF getCacheProvider(providerInstance, env).out = "throw"
               THEN /\ calls' = [calls EXCEPT !.events = @ + 1]
                    /\ ret' = [None EXCEPT !.op = "trackEvent", !.key = VisitorKey(visitorId),
                                           !.before = db, !.track = call,
                                           !.out = Swallow(Failed, JUndefined).out,
                                           !.val = Swallow(Failed, JUndefined).val,
                                           !.cause = "construction"]
               ELSE /\ calls' = [calls EXCEPT !.track = call, !.events = @ + 1]
                    /\ ret' = ret
    /\ ObtainCacheProvider
    /\ UNCHANGED <<db, env, now, build, aiProviderInstance, aiCall>>

\* the existence check settles; the rest of the batch is queued and sent
TrackExists ==
    /\ Ready
    /\ calls.track.pc = "exists"
    /\ \E mode \in Modes :
           calls' = [calls EXCEPT !.track.pc = "exec",
                                  !.track.exists =
                                      RedisExists(db, VisitorKey(calls.track.id), mode).val.b]
    /\ UNCHANGED <<redisUrl, clientMode, db, ret, env, providerInstance, now, build, aiProviderInstance, aiCall>>

\* what trackEvent hands back once its batch settled: out is "throw" when
\* exec() rejected
TrackSettled(call, before, mode, out) ==
    [None EXCEPT !.op = "trackEvent", !.key = VisitorKey(call.id), !.before = before,
                 !.track = call, !.mode = mode,
                 !.out = Swallow([out |-> out, val |-> JUndefined], JUndefined).out,
                 !.val = Swallow([out |-> out, val |-> JUndefined], JUndefined).val,
                 !.cause = IF out = "throw" THEN "batch" ELSE "none"]

\* the batch has run: r is [db, out, val] of exec()
TrackSettles(r, mode) ==
    /\ db' = r.db
    /\ ret' = TrackSettled(calls.track, db, mode, r.out)

\* the batch settles; a rejection is caught and the call resolves
TrackExec ==
    /\ Ready
    /\ calls.track.pc = "exec"
    /\ \E mode \in Modes :
           TrackSettles(RedisExec(db, TrackBatch(calls.track), mode), mode)
    /\ calls' = [calls EXCEPT !.track = NoTrack]
    /\ UNCHANGED <<redisUrl, clientMode, env, providerInstance, now, build, aiProviderInstance, aiCall>>

\* getAnalyticsData up to its first await: scard, get and smembers are sent
\* together and settle each on its own; with no visitor id read the call
\* returns at once
ReportBegin ==
    /\ Ready
    /\ calls.report.pc = "idle" /\ calls.track.pc = "idle"
    /\ \E scardMode \in Modes, getMode \in Modes, smembersMode \in Modes,
          order \in Orderings(SetOf(db, S_visitors)) :
           LET call == [pc |-> "details",
                        totalVisitors |-> RedisScard(db, S_visitors, scardMode).val,
                        totalQueries |-> RedisGet(db, S_queriesTotal, getMode).val,
                        visitorIds |-> [i \in 1..Len(RedisSmembers(db, S_visitors, order, smembersMode).val.a) |->
                                           RedisSmembers(db, S_visitors, order, smembersMode).val.a[i].s],
                        answered |-> [scard |-> ~ClientFails(scardMode), get |-> ~ClientFails(getMode),
                                      smembers |-> ~ClientFails(smembersMode)],
                        visitors |-> SetOf(db, S_visitors),
                        path |-> "none"]
           IN  IF getCacheProvider(providerInstance, env).out = "throw"
               THEN /\ ret' = [None EXCEPT !.op = "getAnalyticsData", !.before = db,
                                           !.out = Swallow(Failed, ZeroSnapshot).out,
                                           !.val = Swallow(Failed, ZeroSnapshot).val,
                                           !.cause = "construction",
                                           !.report = [NoReport EXCEPT !.path = "error"]]
                    /\ calls' = calls
               ELSE IF Len(call.visitorIds) = 0
               THEN /\ ret' = [None EXCEPT !.op = "getAnalyticsData", !.before = db,
                                           !.val = EmptySnapshot(call.totalQueries),
                                           !.report = [call EXCEPT !.pc = "idle", !.path = "empty"]]
                    /\ calls' = calls
               ELSE /\ ret' = ret
                    /\ calls' = [calls EXCEPT !.report = call]
    /\ ObtainCacheProvider
    /\ UNCHANGED <<db, env, now, build, aiProviderInstance, aiCall>>

\* the batch of hgetall commands settles and the snapshot is built; a
\* rejection is caught and the zeroed snapshot is returned
ReportDetails ==
    /\ Ready
    /\ calls.report.pc = "details"
    /\ \E mode \in Modes :
           LET call == calls.report
               r == RedisExec(db, [i \in 1..Len(call.visitorIds) |->
                                      PipeHgetall(VisitorKey(call.visitorIds[i]))], mode)
           IN  ret' = IF r.out = "throw"
                      THEN [None EXCEPT !.op = "getAnalyticsData", !.before = db,
                                        !.out = Swallow(Failed, ZeroSnapshot).out,
                                        !.val = Swallow(Failed, ZeroSnapshot).val,
                                        !.cause = "batch",
                                        !.report = [call EXCEPT !.pc = "idle", !.path = "error"]]
                      ELSE [None EXCEPT !.op = "getAnalyticsData", !.before = db,
                                        !.val = FullSnapshot(call.totalVisitors, call.totalQueries,
                                                             call.visitorIds, r.val.a, now),
                                        !.report = [call EXCEPT !.pc = "idle", !.path = "full"]]
    /\ calls' = [calls EXCEPT !.report = NoReport]
    /\ UNCHANGED <<redisUrl, clientMode, db, env, providerInstance, now, build, aiProviderInstance, aiCall>>

\* time passes
Tick ==
    /\ Ready
    /\ calls.ticks < MaxTicks
    /\ \E step \in ClockSteps : now' = now + step
    /\ calls' = [calls EXCEPT !.ticks = @ + 1]
    /\ UNCHANGED <<redisUrl, clientMode, db, ret, env, providerInstance, build, aiProviderInstance, aiCall>>

\* a self-hosted deployment with an empty store; the analytics functions are
\* called one at a time, each awaited before the next
InitAnalytics ==
    /\ redisUrl = DocStandaloneUrl
    /\ clientMode = "cluster"
    /\ db = EmptyDb
    /\ ret = None
    /\ env = RedisEnv
    /\ providerInstance = "redis"
    /\ now = DayMs
    /\ calls = NoCalls
    /\ build = DefaultBuild
    /\ aiProviderInstance = NoAI
    /\ aiCall = NoAICall

NextAnalytics ==
    \/ TrackBegin \/ TrackExists \/ TrackExec
    \/ ReportBegin \/ ReportDetails
    \/ Tick \/ Resume

SpecAnalytics == InitAnalytics /\ [][NextAnalytics]_vars

\* a process that has not yet used the cache, configured for Redis with and
\* without the connection string
MisconfiguredEnv == [NoEnv EXCEPT !.CACHE_PROVIDER = S_redis]
InitAnalyticsCold ==
    /\ redisUrl = <<>>
    /\ clientMode = "none"
    /\ db = EmptyDb
    /\ ret = None
    /\ env \in {RedisEnv, MisconfiguredEnv}
    /\ providerInstance = "null"
    /\ now = DayMs
    /\ calls = NoCalls
    /\ build = DefaultBuild
    /\ aiProviderInstance = NoAI
    /\ aiCall = NoAICall

SpecAnalyticsCold == InitAnalyticsCold /\ [][NextAnalytics]_vars

\* the text stored in a field of a visitor's record, empty when absent
StoredField(d, visitorId, field) ==
    IF HashHas(HashOf(d, VisitorKey(visitorId)), field)
    THEN HashGet(HashOf(d, VisitorKey(visitorId)), field)
    ELSE <<>>

\* C5: a trackEvent call, run while no other is in flight, leaves the stored
\* firstSeen of a visitor that has one as it was and writes its own timestamp
\* as firstSeen only for a visitor that had none; the stored country becomes
\* the one the call supplied and stays as it was when the call supplied none.
C5_FirstSeenKept ==
    (ret.op = "trackEvent" /\ ret.track.pc = "exec") =>
        LET id == ret.track.id
            was == StoredField(ret.before, id, S_firstSeen)
            is == StoredField(db, id, S_firstSeen)
        IN  /\ was # <<>> => is = was
            /\ (was = <<>> /\ is # <<>>) => is = IntToText(ret.track.timestamp)
            /\ was # <<>> =>
                   StoredField(db, id, S_country) =
                       IF ret.track.country # <<>> /\ db # ret.before
                       THEN <<"\"">> \o ret.track.country \o <<"\"">>
                       ELSE StoredField(ret.before, id, S_country)

\* C6 as stated: when the list of visitor ids read is empty, the snapshot is
\* the all-zero one, whatever the store holds.
C6_EmptySetAllZero ==
    (ret.op = "getAnalyticsData" /\ ret.report.path = "empty") => ret.val = ZeroSnapshot

\* what the read of queries:total saw: the stored counter, 0 when the key is
\* absent or the read was not answered
QueriesRead(d, answered) ==
    IF answered /\ S_queriesTotal \in DOMAIN d.str THEN IntOfText(d.str[S_queriesTotal].text) ELSE 0

\* C6 amended: when the list of visitor ids read is empty, the snapshot has
\* totalVisitors 0, activeUsers24h 0, empty deviceStats and countryStats and
\* no recentVisitors, and its totalQueries is what the read of queries:total saw.
C6_EmptySetKeepsQueries ==
    (ret.op = "getAnalyticsData" /\ ret.report.path = "empty") =>
        ret.val = JObj(<< <<S_totalVisitors, JNum(0)>>,
                          <<S_totalQueries, JNum(QueriesRead(ret.before, ret.report.answered.get))>>,
                          <<S_activeUsers24h, JNum(0)>>,
                          <<S_deviceStats, JObj(<<>>)>>,
                          <<S_countryStats, JObj(<<>>)>>,
                          <<S_recentVisitors, JArr(<<>>)>> >>)

\* the read of the visitor set came back empty while queries had been counted
C6_Witness ==
    /\ ret.op = "getAnalyticsData" /\ ret.report.path = "empty"
    /\ ObjGet(ret.val, S_totalQueries) = JNum(1)
    /\ ObjGet(ret.val, S_totalVisitors) = JNum(0)

\* the ids whose stored lastSeen is later than a day before t
ActiveIds(d, ids, t) ==
    {id \in ids : /\ StoredField(d, id, S_lastSeen) # <<>>
                  /\ IntOfText(StoredField(d, id, S_lastSeen)) > t - DayMs}

\* C7: a getAnalyticsData call that read the details of its visitors reports
\* as activeUsers24h the number of ids of the visitor set whose stored
\* lastSeen is later than 24 hours before the present.
C7_ActiveUsers ==
    (ret.op = "getAnalyticsData" /\ ret.report.path = "full") =>
        ObjGet(ret.val, S_activeUsers24h) =
            JNum(Cardinality(ActiveIds(ret.before, ret.report.visitors, now)))

\* of two visitors one was seen exactly a day ago and is not counted, the
\* other is
C7_Witness ==
    /\ ret.op = "getAnalyticsData" /\ ret.report.path = "full"
    /\ Cardinality(ret.report.visitors) = 2
    /\ ObjGet(ret.val, S_activeUsers24h) = JNum(1)
    /\ \E id \in ret.report.visitors : StoredField(ret.before, id, S_lastSeen) = IntToText(now - DayMs)

\* C8: a getAnalyticsData call that read the details of its visitors lists in
\* recentVisitors one record for each id of the visitor set, with the stored
\* lastSeen of that id, each record's lastSeen at least that of the next.
C8_RecentVisitorsSorted ==
    (ret.op = "getAnalyticsData" /\ ret.report.path = "full") =>
        LET recent == ObjGet(ret.val, S_recentVisitors).a
        IN  /\ Len(recent) = Cardinality(ret.report.visitors)
            /\ {ObjGet(recent[i], S_id).s : i \in 1..Len(recent)} = ret.report.visitors
            /\ \A i \in 1..Len(recent) :
                   IntToText(ObjGet(recent[i], S_lastSeen).n) =
                       StoredField(ret.before, ObjGet(recent[i], S_id).s, S_lastSeen)
            /\ \A i \in 1..(Len(recent) - 1) :
                   ObjGet(recent[i], S_lastSeen).n >= ObjGet(recent[i + 1], S_lastSeen).n

\* two visitors were listed, the later seen first, against the order in which
\* the store listed their ids
C8_Witness ==
    /\ ret.op = "getAnalyticsData" /\ ret.report.path = "full"
    /\ LET recent == ObjGet(ret.val, S_recentVisitors).a
       IN  /\ Len(recent) = 2
           /\ ObjGet(recent[1], S_lastSeen).n > ObjGet(recent[2], S_lastSeen).n
           /\ ret.report.visitorIds[1] = ObjGet(recent[2], S_id).s

----------------------------------------------------------------------------
(* Construction of the client                                              *)

\* constructor(redisUrl): new Cluster(...) when isClusterConnection, else new Redis(...)
Construct ==
    /\ clientMode = "none"
    /\ clientMode' = IF isClusterConnection(redisUrl) THEN "cluster" ELSE "standalone"
    /\ UNCHANGED <<redisUrl, db, ret, env, providerInstance, now, calls, build, aiProviderInstance, aiCall>>

\* disconnect(): the client is closed and a new provider may be constructed
Disconnect ==
    /\ clientMode # "none"
    /\ clientMode' = "none"
    /\ UNCHANGED <<redisUrl, db, ret, env, providerInstance, now, calls, build, aiProviderInstance, aiCall>>

\* REDIS_URL is changed while no provider exists
Reconfigure ==
    /\ clientMode = "none"
    /\ redisUrl' \in UrlInputs \ {redisUrl}
    /\ UNCHANGED <<clientMode, db, ret, env, providerInstance, now, calls, build, aiProviderInstance, aiCall>>

\* the process starts with the documented standalone connection string
InitConn ==
    /\ redisUrl = DocStandaloneUrl
    /\ clientMode = "none"
    /\ db = EmptyDb
    /\ ret = None
    /\ env = RedisEnv
    /\ providerInstance = "null"
    /\ now = 0
    /\ calls = NoCalls
    /\ build = DefaultBuild
    /\ aiProviderInstance = NoAI
    /\ aiCall = NoAICall

NextConn == Construct \/ Disconnect \/ Reconfigure

SpecConn == InitConn /\ [][NextConn]_vars

\* C10: the constructor builds a cluster client exactly when the connection
\* string contains ?cluster=true, and a standalone client otherwise; the
\* documented standalone URL yields a standalone client.
C10_ClusterOnlyWithFlag ==
    clientMode # "none" =>
        /\ (clientMode = "cluster") <=> Includes(redisUrl, S_qClusterTrue)
        /\ (redisUrl = DocStandaloneUrl => clientMode = "standalone")

----------------------------------------------------------------------------
(* The two factories and their singletons                                  *)

S_memcached == <<"m", "e", "m", "c", "a", "c", "h", "e", "d">>
S_TrueMixed == <<"T", "r", "u", "e">>
S_false == <<"f", "a", "l", "s", "e">>
S_OpenAIMixed == <<"O", "p", "e", "n", "A", "I">>
S_llama == <<"l", "l", "a", "m", "a">>
S_key == <<"k", "e", "y">>

\* the values tried for the variables the cache factory reads: the provider
\* name, the connection string, and which hosted-KV credential is set
CacheNames == {<<>>, S_redis, S_RedisUpper, S_vercelKv, S_memcached}
RedisUrls == {<<>>, DocStandaloneUrl}
KvCredentials ==
    { [KV_REST_API_URL |-> <<>>, KV_URL |-> <<>>, KV_REST_API_TOKEN |-> <<>>],
      [KV_REST_API_URL |-> S_kvUrl, KV_URL |-> <<>>, KV_REST_API_TOKEN |-> <<>>],
      [KV_REST_API_URL |-> <<>>, KV_URL |-> S_kvUrl, KV_REST_API_TOKEN |-> <<>>],
      [KV_REST_API_URL |-> <<>>, KV_URL |-> <<>>, KV_REST_API_TOKEN |-> S_kvToken] }

\* the values tried for the variables the AI factory reads: the flag, the
\* provider name, and which API keys are set
ClusterFlags == {<<>>, S_TrueMixed, S_false}
AINames ==
    {<<>>, S_gemini, S_OpenAIMixed, S_openaiCompatible, S_anthropic, S_clusterAi, S_clusterMcp,
     S_llama}
ApiKeys ==
    { [GEMINI_API_KEY |-> <<>>, OPENAI_API_KEY |-> <<>>, ANTHROPIC_API_KEY |-> <<>>],
      [GEMINI_API_KEY |-> <<>>, OPENAI_API_KEY |-> S_key, ANTHROPIC_API_KEY |-> S_key],
      [GEMINI_API_KEY |-> S_key, OPENAI_API_KEY |-> S_key, ANTHROPIC_API_KEY |-> S_key] }

\* the cache provider a get hands back
CacheHandle(variant, url) == [variant |-> variant, redisUrl |-> url]

\* getCacheProvider() called on its own
GetCacheProvider ==
    /\ Ready
    /\ ret' = [None EXCEPT
                  !.op = "getCacheProvider",
                  !.made = (providerInstance = "null"),
                  !.out = getCacheProvider(providerInstance, env).out,
                  !.cache = IF getCacheProvider(providerInstance, env).out = "throw"
                            THEN CacheHandle("null", <<>>)
                            ELSE IF getCacheProvider(providerInstance, env).variant # "redis"
                            THEN CacheHandle(getCacheProvider(providerInstance, env).variant, <<>>)
                            ELSE IF providerInstance = "null"
                            THEN CacheHandle("redis", env.REDIS_URL)
                            ELSE CacheHandle("redis", redisUrl)]
    /\ providerInstance' = IF getCacheProvider(providerInstance, env).out = "throw"
                           THEN providerInstance
                           ELSE getCacheProvider(providerInstance, env).variant
    /\ IF providerInstance = "null" /\ getCacheProvider(providerInstance, env).out = "return"
          /\ getCacheProvider(providerInstance, env).variant = "redis"
       THEN /\ redisUrl' = env.REDIS_URL
            /\ clientMode' = IF isClusterConnection(env.REDIS_URL) THEN "cluster" ELSE "standalone"
       ELSE UNCHANGED <<redisUrl, clientMode>>
    /\ UNCHANGED <<db, env, now, calls, build, aiProviderInstance, aiCall>>

\* a plausible slip: the slot is assigned before the constructor has checked
\* the key, so that a construction that throws leaves a provider behind
GetAIProvider_keepsPartial ==
    /\ Ready
    /\ aiCall.pc = "idle"
    /\ ret' = [None EXCEPT
                  !.op = "getAIProvider",
                  !.made = (aiProviderInstance.variant = "null"),
                  !.out = getAIProvider(aiProviderInstance, build, env).out,
                  !.ai = getAIProvider(aiProviderInstance, build, env).inst]
    /\ aiProviderInstance' = IF getAIProvider(aiProviderInstance, build, env).out = "throw"
                             THEN [NoAI EXCEPT !.variant = "gemini"]
                             ELSE getAIProvider(aiProviderInstance, build, env).inst
    /\ UNCHANGED <<redisUrl, clientMode, db, env, providerInstance, now, calls, build, aiCall>>

\* getAIProvider() called on its own
GetAIProvider ==
    /\ Ready
    /\ aiCall.pc = "idle"
    /\ ret' = [None EXCEPT
                  !.op = "getAIProvider",
                  !.made = (aiProviderInstance.variant = "null"),
                  !.out = getAIProvider(aiProviderInstance, build, env).out,
                  !.ai = getAIProvider(aiProviderInstance, build, env).inst]
    /\ aiProviderInstance' = IF getAIProvider(aiProviderInstance, build, env).out = "throw"
                             THEN aiProviderInstance
                             ELSE getAIProvider(aiProviderInstance, build, env).inst
    /\ UNCHANGED <<redisUrl, clientMode, db, env, providerInstance, now, calls, build, aiCall>>

\* resetAIProvider()
ResetAIProvider ==
    /\ Ready
    /\ aiCall.pc = "idle"
    /\ aiProviderInstance.variant # "null"
    /\ aiProviderInstance' = NoAI
    /\ UNCHANGED <<redisUrl, clientMode, db, ret, env, providerInstance, now, calls, build, aiCall>>

\* the configuration of the cache is changed, one setting at a time
SetCacheEnv ==
    /\ Ready
    /\ \/ \E name \in CacheNames \ {env.CACHE_PROVIDER} : env' = [env EXCEPT !.CACHE_PROVIDER = name]
       \/ \E url \in RedisUrls \ {env.REDIS_URL} : env' = [env EXCEPT !.REDIS_URL = url]
       \/ \E kv \in KvCredentials :
              /\ env' = [env EXCEPT !.KV_REST_API_URL = kv.KV_REST_API_URL, !.KV_URL = kv.KV_URL,
                                    !.KV_REST_API_TOKEN = kv.KV_REST_API_TOKEN]
              /\ env' # env
    /\ UNCHANGED <<redisUrl, clientMode, db, ret, providerInstance, now, calls, build,
                   aiProviderInstance, aiCall>>

\* the configuration of the AI backend is changed, one setting at a time
SetAIEnv ==
    /\ Ready
    /\ \/ \E flag \in ClusterFlags \ {env.CLUSTER_AI_ENABLED} :
              env' = [env EXCEPT !.CLUSTER_AI_ENABLED = flag]
       \/ \E name \in AINames \ {env.AI_PROVIDER} : env' = [env EXCEPT !.AI_PROVIDER = name]
       \/ \E keys \in ApiKeys :
              /\ env' = [env EXCEPT !.GEMINI_API_KEY = keys.GEMINI_API_KEY,
                                    !.OPENAI_API_KEY = keys.OPENAI_API_KEY,
                                    !.ANTHROPIC_API_KEY = keys.ANTHROPIC_API_KEY]
              /\ env' # env
    /\ UNCHANGED <<redisUrl, clientMode, db, ret, providerInstance, now, calls, build,
                   aiProviderInstance, aiCall>>

\* a process that has used neither the cache nor the AI backend, built from
\* any of the copies, nothing configured
InitFactory ==
    /\ redisUrl = <<>>
    /\ clientMode = "none"
    /\ db = EmptyDb
    /\ ret = None
    /\ env = NoEnv
    /\ providerInstance = "null"
    /\ now = 0
    /\ calls = NoCalls
    /\ build \in Builds
    /\ aiProviderInstance = NoAI
    /\ aiCall = NoAICall

NextFactory ==
    \/ GetCacheProvider \/ ResetCacheProvider \/ SetCacheEnv
    \/ GetAIProvider \/ ResetAIProvider \/ SetAIEnv
    \/ Resume

SpecFactory == InitFactory /\ [][NextFactory]_vars

\* what the configuration says, read off the variables directly
NamesRedis == env.CACHE_PROVIDER \in {S_redis, S_RedisUpper}
NamesHosted == env.CACHE_PROVIDER = S_vercelKv
HasKvCredentials ==
    env.KV_REST_API_URL # <<>> \/ env.KV_URL # <<>> \/ env.KV_REST_API_TOKEN # <<>>
FlagOn == env.CLUSTER_AI_ENABLED \in {S_true, S_TrueMixed}
NamedVariant ==
    CASE env.AI_PROVIDER \in {S_openai, S_OpenAIMixed, S_openaiCompatible} -> "openai"
      [] env.AI_PROVIDER = S_anthropic -> "anthropic"
      [] env.AI_PROVIDER \in {S_clusterAi, S_clusterMcp} -> "cluster"
      [] OTHER -> "gemini"
UnknownName == env.AI_PROVIDER = S_llama

\* a getCacheProvider / getAIProvider call that found its slot empty has
\* just settled (the configuration is still the one the factory read)
CacheFactoryRan == ret.op = "getCacheProvider" /\ ret.made
AIFactoryRan == ret.op = "getAIProvider" /\ ret.made

\* C11: createCacheProvider selects the variant from the configuration: an
\* explicit CACHE_PROVIDER (in any letter case) names the variant, Redis being
\* constructed from REDIS_URL and refused with a throw when REDIS_URL is
\* missing; with CACHE_PROVIDER unset a set REDIS_URL selects Redis even when
\* hosted-KV credentials are set too, otherwise the hosted variant is selected,
\* with or without credentials; an unknown name falls back to the hosted variant.
C11_Selection ==
    CacheFactoryRan =>
        /\ NamesRedis =>
               IF env.REDIS_URL # <<>>
               THEN ret.out = "return" /\ ret.cache = CacheHandle("redis", env.REDIS_URL)
               ELSE ret.out = "throw"
        /\ NamesHosted => ret.out = "return" /\ ret.cache.variant = "vercel-kv"
        /\ env.CACHE_PROVIDER = <<>> =>
               /\ ret.out = "return"
               /\ ret.cache.variant = IF env.REDIS_URL # <<>> THEN "redis" ELSE "vercel-kv"
        /\ env.CACHE_PROVIDER = S_memcached => ret.out = "return" /\ ret.cache.variant = "vercel-kv"

\* auto-detection prefers the connection string over hosted-KV credentials
C11_Witness ==
    /\ CacheFactoryRan
    /\ env.CACHE_PROVIDER = <<>> /\ env.REDIS_URL # <<>> /\ HasKvCredentials
    /\ ret.cache.variant = "redis"

\* C12: createAIProvider hands back the cluster backend whenever
\* CLUSTER_AI_ENABLED is true, whatever AI_PROVIDER names; otherwise a
\* provider it hands back is the backend AI_PROVIDER names (cluster-ai and
\* cluster-mcp naming the cluster backend), Gemini when nothing is named.
C12_FlagThenNameThenDefault ==
    AIFactoryRan =>
        /\ FlagOn => ret.out = "return" /\ ret.ai.variant = "cluster"
        /\ (~FlagOn /\ ret.out = "return") => ret.ai.variant = NamedVariant

\* C13 as stated: with an unrecognized AI_PROVIDER and the flag off,
\* createAIProvider never fails and hands back the default Gemini backend,
\* whatever the other variables hold.
C13_UnknownNameNeverFails ==
    (AIFactoryRan /\ ~FlagOn /\ UnknownName) =>
        ret.out = "return" /\ ret.ai.variant = "gemini"

\* C13: with an unrecognized AI_PROVIDER and the flag off, createAIProvider
\* falls back to the Gemini backend: it hands back a Gemini provider built
\* from GEMINI_API_KEY when that key is set, and throws (the Gemini
\* constructor refusing the missing key) when it is not.
C13_UnknownNameFallsBack ==
    (AIFactoryRan /\ ~FlagOn /\ UnknownName) =>
        IF env.GEMINI_API_KEY # <<>>
        THEN /\ ret.out = "return"
             /\ ret.ai.variant = "gemini"
             /\ ret.ai.apiKey = env.GEMINI_API_KEY
        ELSE ret.out = "throw"

\* the fallback was taken and a Gemini provider handed back
C13_Witness ==
    /\ AIFactoryRan /\ ~FlagOn /\ UnknownName
    /\ ret.out = "return" /\ ret.ai.variant = "gemini"

\* a get call settles in this step
CacheGetStep == ret.op = "none" /\ ret'.op = "getCacheProvider"
AIGetStep == ret.op = "none" /\ ret'.op = "getAIProvider"

\* a get that finds an instance in the slot hands back that instance without
\* running the factory
SlotIsReused ==
    /\ (CacheGetStep /\ providerInstance # "null") =>
           /\ ret'.out = "return"
           /\ ret'.cache = CacheHandle(providerInstance,
                                       IF providerInstance = "redis" THEN redisUrl ELSE <<>>)
           /\ providerInstance' = providerInstance /\ redisUrl' = redisUrl
    /\ (AIGetStep /\ aiProviderInstance.variant # "null") =>
           /\ ret'.out = "return"
           /\ ret'.ai = aiProviderInstance
           /\ aiProviderInstance' = aiProviderInstance

\* an instance handed back by a get that found the slot empty is built from
\* the configuration of that moment and is the instance the slot then holds
BuiltFromCurrent ==
    /\ (CacheGetStep /\ providerInstance = "null" /\ ret'.out = "return") =>
           /\ providerInstance' = ret'.cache.variant
           /\ providerInstance' # "null"
           /\ ret'.cache.variant = "redis" =>
                  env.REDIS_URL # <<>> /\ ret'.cache.redisUrl = env.REDIS_URL /\ redisUrl' = env.REDIS_URL
    /\ (AIGetStep /\ aiProviderInstance.variant = "null" /\ ret'.out = "return") =>
           /\ aiProviderInstance' = ret'.ai
           /\ ret'.ai.variant # "null"
           /\ ret'.ai = BuildFactory(build, env).inst

\* C14 as stated: between two resets the factory runs at most once (a get
\* that runs the factory leaves an instance in the slot, so that no later get
\* runs it again), every get hands back the same instance, and the first get
\* after a reset builds its instance from the configuration of that moment.
C14_FactoryOncePerReset ==
    [][ /\ SlotIsReused
        /\ BuiltFromCurrent
        /\ (CacheGetStep /\ providerInstance = "null") => providerInstance' # "null"
        /\ (AIGetStep /\ aiProviderInstance.variant = "null") => aiProviderInstance'.variant # "null"
      ]_vars

\* C14: between two resets the factory hands back an instance at most once
\* (a get that finds an instance in the slot never runs the factory), every
\* get that returns hands back that same instance, and a get that finds the
\* slot empty builds its instance from the configuration of that moment; a
\* factory run that throws leaves the slot empty, so that the next get runs
\* the factory again.
C14_SingletonUntilReset ==
    [][ /\ SlotIsReused
        /\ BuiltFromCurrent
        /\ (CacheGetStep /\ providerInstance = "null" /\ ret'.out = "throw") =>
               providerInstance' = "null"
        /\ (AIGetStep /\ aiProviderInstance.variant = "null" /\ ret'.out = "throw") =>
               aiProviderInstance' = NoAI
      ]_vars

\* a get hands back the instance built earlier although the configuration
\* now names another backend
C14_Witness ==
    /\ ret.op = "getAIProvider" /\ ~ret.made
    /\ ret.ai = aiProviderInstance
    /\ ret.ai.variant = "gemini" /\ env.AI_PROVIDER = S_anthropic /\ ~FlagOn

----------------------------------------------------------------------------
(* Calls on the OpenAI-compatible and the cluster-hosted AI provider       *)

S_timeout == <<"t", "i", "m", "e", "o", "u", "t">>
S_timedOut == <<"t", "i", "m", "e", "d", " ", "o", "u", "t">>
S_notFound == <<"n", "o", "t", " ", "f", "o", "u", "n", "d">>
S_404 == <<"4", "0", "4">>
S_unavailable == <<"u", "n", "a", "v", "a", "i", "l", "a", "b", "l", "e">>
S_raceMessage == <<"C", "l", "u", "s", "t", "e", "r", " ", "A", "I", " ", "r", "e", "q", "u", "e", "s", "t", " ", "t", "i", "m", "e", "d", " ", "o", "u", "t", " ", "a", "f", "t", "e", "r", " ", "6", "0", "0", "0", "0", "m", "s">>
S_timeout60 == <<"C", "l", "u", "s", "t", "e", "r", " ", "A", "I", " ", "r", "e", "q", "u", "e", "s", "t", " ", "t", "i", "m", "e", "d", " ", "o", "u", "t", " ", "a", "f", "t", "e", "r", " ", "6", "0", " ", "s", "e", "c", "o", "n", "d", "s", ".", " ", "T", "h", "e", " ", "s", "e", "r", "v", "i", "c", "e", " ", "m", "a", "y", " ", "b", "e", " ", "s", "l", "o", "w", " ", "o", "r", " ", "u", "n", "a", "v", "a", "i", "l", "a", "b", "l", "e", ".">>
S_timeout120 == <<"C", "l", "u", "s", "t", "e", "r", " ", "A", "I", " ", "r", "e", "q", "u", "e", "s", "t", " ", "t", "i", "m", "e", "d", " ", "o", "u", "t", " ", "a", "f", "t", "e", "r", " ", "1", "2", "0", " ", "s", "e", "c", "o", "n", "d", "s", ".", " ", "T", "h", "e", " ", "s", "e", "r", "v", "i", "c", "e", " ", "m", "a", "y", " ", "b", "e", " ", "s", "l", "o", "w", " ", "o", "r", " ", "u", "n", "a", "v", "a", "i", "l", "a", "b", "l", "e", ".">>
S_modelNotFound == <<"C", "l", "u", "s", "t", "e", "r", " ", "A", "I", " ", "m", "o", "d", "e", "l", " ", "n", "o", "t", " ", "f", "o", "u", "n", "d", ":", " ">>
S_checkModels == <<".", " ", "C", "h", "e", "c", "k", " ", "a", "v", "a", "i", "l", "a", "b", "l", "e", " ", "m", "o", "d", "e", "l", "s", ".">>
S_baseUrlIs == <<" ", "B", "a", "s", "e", "U", "R", "L", ":", " ">>
S_serviceUnavailable == <<"C", "l", "u", "s", "t", "e", "r", " ", "A", "I", " ", "s", "e", "r", "v", "i", "c", "e", " ", "u", "n", "a", "v", "a", "i", "l", "a", "b", "l", "e", ".", " ", "C", "h", "e", "c", "k", " ", "i", "f", " ", "t", "h", "e", " ", "s", "e", "r", "v", "i", "c", "e", " ", "i", "s", " ", "r", "u", "n", "n", "i", "n", "g", ".">>
S_noResponseOpenAI == <<"N", "o", " ", "r", "e", "s", "p", "o", "n", "s", "e", " ", "f", "r", "o", "m", " ", "O", "p", "e", "n", "A", "I">>
S_noResponseCluster == <<"N", "o", " ", "r", "e", "s", "p", "o", "n", "s", "e", " ", "f", "r", "o", "m", " ", "c", "l", "u", "s", "t", "e", "r", " ", "A", "I">>
S_emptyObject == <<"{", "}">>
S_functionCalls == <<"f", "u", "n", "c", "t", "i", "o", "n", "C", "a", "l", "l", "s">>
S_text == <<"t", "e", "x", "t">>
S_name == <<"n", "a", "m", "e">>
S_args == <<"a", "r", "g", "s">>

MaxChunks == 2

AIOps == {"generateContent", "generateContentStream", "generateWithFunctions"}

\* new Error(message)
NewError(message) ==
    [origin |-> "provider", name |-> "Error", status |-> 0, code |-> "", message |-> message]

\* an error of the client library or of the service
BackendError(name, status, code, message) ==
    [origin |-> "backend", name |-> name, status |-> status, code |-> code, message |-> message]

\* the SyntaxError of JSON.parse
SyntaxError ==
    [origin |-> "runtime", name |-> "SyntaxError", status |-> 0, code |-> "",
     message |-> <<"U", "n", "e", "x", "p", "e", "c", "t", "e", "d", " ", "t", "o", "k", "e", "n">>]

\* what a method hands back: a value, or an error thrown
Value(x) == [out |-> "return", val |-> x, error |-> NoError]
Raise(error) == [out |-> "throw", val |-> JUndefined, error |-> error]

\* error.message || error.response?.data?.detail || String(error): every error
\* tried carries a message
ErrorMessage(error) == error.message

\* the catch block of ClusterAIProvider.generateContent
CatchGenerateContent(error, modelName, baseURL) ==
    IF \/ error.name = "AbortError"
       \/ Includes(ErrorMessage(error), S_timeout)
       \/ Includes(ErrorMessage(error), S_timedOut)
    THEN Raise(NewError(S_timeout60))
    ELSE IF \/ error.status = 404
            \/ Includes(ErrorMessage(error), S_notFound)
            \/ Includes(ErrorMessage(error), S_404)
    THEN Raise(NewError(S_modelNotFound \o modelName \o S_checkModels \o S_baseUrlIs \o baseURL))
    ELSE IF \/ error.status = 503
            \/ error.code = "ECONNREFUSED"
            \/ Includes(ErrorMessage(error), S_unavailable)
    THEN Raise(NewError(S_serviceUnavailable))
    ELSE Raise(error)

\* the catch block of ClusterAIProvider.generateContentStream
CatchGenerateContentStream(error, modelName) ==
    IF error.name = "AbortError" \/ Includes(error.message, S_timeout)
    THEN Raise(NewError(S_timeout120))
    ELSE IF error.status = 404
    THEN Raise(NewError(S_modelNotFound \o modelName \o S_checkModels))
    ELSE IF error.status = 503 \/ error.code = "ECONNREFUSED"
    THEN Raise(NewError(S_serviceUnavailable))
    ELSE Raise(error)

\* the catch block of ClusterAIProvider.generateWithFunctions
CatchGenerateWithFunctions(error, modelName) ==
    IF error.status = 404
    THEN Raise(NewError(S_modelNotFound \o modelName \o S_checkModels))
    ELSE IF error.status = 503 \/ error.code = "ECONNREFUSED"
    THEN Raise(NewError(S_serviceUnavailable))
    ELSE Raise(error)

\* what the provider does with an error raised inside a method: the cluster
\* provider runs the catch block of the method, the OpenAI provider has none
Caught(provider, op, error) ==
    IF provider.variant # "cluster" THEN Raise(error)
    ELSE IF op = "generateContent"
    THEN CatchGenerateContent(error, provider.defaultModel, provider.baseURL)
    ELSE IF op = "generateContentStream"
    THEN CatchGenerateContentStream(error, provider.defaultModel)
    ELSE CatchGenerateWithFunctions(error, provider.defaultModel)

\* throw new Error("No response from ...")
NoResponse(provider) ==
    NewError(IF provider.variant = "cluster" THEN S_noResponseCluster ELSE S_noResponseOpenAI)

\* message.tool_calls?.map(call => ({name, args: JSON.parse(call.function.arguments || "{}")})) || []
\* [ok, mapped], ok = FALSE when JSON.parse throws
RECURSIVE MapToolCalls(_)
MapToolCalls(toolCalls) ==
    IF Len(toolCalls) = 0 THEN [ok |-> TRUE, mapped |-> <<>>]
    ELSE IF ~JSONparse(TextOr(Head(toolCalls).arguments, S_emptyObject)).ok
    THEN [ok |-> FALSE, mapped |-> <<>>]
    ELSE [ok |-> MapToolCalls(Tail(toolCalls)).ok,
          mapped |-> << JObj(<< <<S_name, JStr(Head(toolCalls).name)>>,
                               <<S_args, JSONparse(TextOr(Head(toolCalls).arguments,
                                                          S_emptyObject)).v>> >>) >>
                    \o MapToolCalls(Tail(toolCalls)).mapped]

\* {functionCalls, text: message.content || undefined}
FunctionCallResult(functionCalls, content) ==
    JObj(<< <<S_functionCalls, JArr(functionCalls)>>,
            <<S_text, IF content # <<>> THEN JStr(content) ELSE JUndefined>> >>)

\* generateContent after the response arrived: response is [hasMessage,
\* content, toolCalls], content <<>> standing for null or ""
AfterContentResponse(provider, response) ==
    IF ~response.hasMessage THEN Caught(provider, "generateContent", NoResponse(provider))
    ELSE Value(JStr(response.content))

\* generateWithFunctions after the response arrived
AfterFunctionsResponse(provider, response) ==
    IF ~response.hasMessage THEN Caught(provider, "generateWithFunctions", NoResponse(provider))
    ELSE IF ~MapToolCalls(response.toolCalls).ok
    THEN Caught(provider, "generateWithFunctions", SyntaxError)
    ELSE Value(FunctionCallResult(MapToolCalls(response.toolCalls).mapped, response.content))

\* the responses tried: a text, no choice at all, a message without content,
\* tool calls with valid, empty and invalid arguments
ToolCall(arguments) == [name |-> <<"f">>, arguments |-> arguments]
Response(hasMessage, content, toolCalls) ==
    [hasMessage |-> hasMessage, content |-> content, toolCalls |-> toolCalls]
Responses ==
    { Response(TRUE, <<"o", "k">>, <<>>),
      Response(FALSE, <<>>, <<>>),
      Response(TRUE, <<>>, <<>>),
      Response(TRUE, <<>>, <<ToolCall(<<"{", "\\", "\"", "a", "\\", "\"", ":", "1", "}">>)>>),
      Response(TRUE, <<>>, <<ToolCall(<<>>)>>),
      Response(TRUE, <<>>, <<ToolCall(<<"{", "b", "a", "d">>)>>) }

\* the response has not the shape the method expects
Malformed(op, response) ==
    \/ ~response.hasMessage
    \/ /\ op = "generateWithFunctions"
       /\ \E i \in 1..Len(response.toolCalls) :
              ~JSONparse(TextOr(response.toolCalls[i].arguments, S_emptyObject)).ok

\* the failures tried: by status, by code, by message only, and others
Unauthorized == BackendError("Error", 401, "", <<"U", "n", "a", "u", "t", "h", "o", "r", "i", "z", "e", "d">>)
BackendErrors ==
    { BackendError("Error", 404, "", <<"n", "o", " ", "b", "o", "d", "y">>),
      BackendError("Error", 503, "", <<"n", "o", " ", "b", "o", "d", "y">>),
      BackendError("Error", 0, "ECONNREFUSED", <<"c", "o", "n", "n", "e", "c", "t", " ", "f", "a", "i", "l", "e", "d">>),
      BackendError("Error", 0, "", <<"m", "o", "d", "e", "l", " ", "n", "o", "t", " ", "f", "o", "u", "n", "d">>),
      BackendError("Error", 0, "", <<"s", "e", "r", "v", "i", "c", "e", " ", "u", "n", "a", "v", "a", "i", "l", "a", "b", "l", "e">>),
      BackendError("Error", 504, "", <<"u", "p", "s", "t", "r", "e", "a", "m", " ", "t", "i", "m", "e", "o", "u", "t">>),
      BackendError("Error", 500, "", <<"b", "o", "o", "m">>) }

\* the rejection of the timeout promise of generateContent
RaceError == NewError(S_raceMessage)

\* the rejection of a request whose signal was aborted
AbortError == BackendError("AbortError", 0, "", <<"a", "b", "o", "r", "t", "e", "d">>)

\* the call settles: r is [out, val, error]
Settle(r, cause, raised) ==
    /\ ret' = [None EXCEPT !.op = aiCall.op, !.out = r.out, !.val = r.val, !.error = r.error,
                           !.cause = cause, !.raised = raised, !.ai = aiProviderInstance]
    /\ aiCall' = NoAICall
    /\ UNCHANGED <<redisUrl, clientMode, db, env, providerInstance, now, calls, build,
                   aiProviderInstance>>

\* a method is called and its request sent; generateContent starts its
\* timeout promise, generateContentStream its abort timer (cluster provider only)
BeginCall(op) ==
    /\ aiCall.pc = "idle"
    /\ aiProviderInstance.variant \in {"openai", "cluster"}
    /\ aiCall' = [pc |-> "awaiting", op |-> op,
                  timer |-> (aiProviderInstance.variant = "cluster"
                             /\ op \in {"generateContent", "generateContentStream"}),
                  chunks |-> 0]
    /\ UNCHANGED <<redisUrl, clientMode, db, ret, env, providerInstance, now, calls, build,
                   aiProviderInstance>>

\* generateContent(prompt)
GenerateContent ==
    /\ Ready
    /\ BeginCall("generateContent")

\* generateContentStream(prompt), the generator run by its consumer
GenerateContentStream ==
    /\ Ready
    /\ BeginCall("generateContentStream")

\* generateWithFunctions(prompt, functions)
GenerateWithFunctions ==
    /\ Ready
    /\ BeginCall("generateWithFunctions")

\* the backend answers the request: the single-shot methods settle, the
\* streaming method starts to read the stream
BackendAnswers ==
    /\ Ready
    /\ aiCall.pc = "awaiting"
    /\ \E response \in Responses :
           IF aiCall.op = "generateContentStream"
           THEN /\ aiCall' = [aiCall EXCEPT !.pc = "streaming"]
                /\ UNCHANGED <<redisUrl, clientMode, db, ret, env, providerInstance, now, calls,
                               build, aiProviderInstance>>
           ELSE Settle(IF aiCall.op = "generateContent"
                       THEN AfterContentResponse(aiProviderInstance, response)
                       ELSE AfterFunctionsResponse(aiProviderInstance, response),
                       IF Malformed(aiCall.op, response) THEN "shape" ELSE "answer",
                       NoError)

\* a chunk arrives: one with content is yielded to the consumer, an empty one is skipped
StreamChunk ==
    /\ Ready
    /\ aiCall.pc = "streaming"
    /\ aiCall.chunks < MaxChunks
    /\ aiCall' = [aiCall EXCEPT !.chunks = @ + 1]
    /\ \E content \in {<<>>, <<"a">>} :
           ret' = IF content = <<>> THEN ret
                  ELSE [None EXCEPT !.op = "generateContentStream", !.out = "yield",
                                    !.val = JStr(content), !.cause = "answer",
                                    !.ai = aiProviderInstance]
    /\ UNCHANGED <<redisUrl, clientMode, db, env, providerInstance, now, calls, build,
                   aiProviderInstance>>

\* the stream ends: the timer is cleared and the generator returns
StreamEnd ==
    /\ Ready
    /\ aiCall.pc = "streaming"
    /\ Settle(Value(JUndefined), "answer", NoError)

\* the request or the stream fails; a service that wants a key refuses the
\* placeholder key of a provider constructed without one
BackendFails ==
    /\ Ready
    /\ aiCall.pc \in {"awaiting", "streaming"}
    /\ \E error \in BackendErrors \cup {Unauthorized} :
           /\ error = Unauthorized => aiProviderInstance.apiKey = S_clusterAi
           /\ Settle(Caught(aiProviderInstance, aiCall.op, error),
                     IF error = Unauthorized THEN "credential" ELSE "backend", error)

\* the timer of the method fires: generateContent loses its race,
\* generateContentStream aborts its request
TimeoutFires ==
    /\ Ready
    /\ aiCall.pc \in {"awaiting", "streaming"}
    /\ aiCall.timer
    /\ IF aiCall.op = "generateContent"
       THEN Settle(Caught(aiProviderInstance, aiCall.op, RaceError), "race", RaceError)
       ELSE Settle(Caught(aiProviderInstance, aiCall.op, AbortError), "abort", AbortError)

\* the client of the cluster provider (timeout: 60000, maxRetries: 2) gives up
\* a request that got no answer; a method that runs a timer of its own (60 s,
\* 120 s) is settled by that timer before the third attempt of the client
\* (180 s) ends
TransportError == BackendError("APIConnectionTimeoutError", 0, "", <<"R", "e", "q", "u", "e", "s", "t", " ", "t", "i", "m", "e", "d", " ", "o", "u", "t", ".">>)
TransportTimeout ==
    /\ Ready
    /\ aiCall.pc = "awaiting"
    /\ aiProviderInstance.variant = "cluster"
    /\ ~aiCall.timer
    /\ Settle(Caught(aiProviderInstance, aiCall.op, TransportError), "transport", TransportError)

----------------------------------------------------------------------------
(* The health-check URL of the cluster backend                             *)

S_slashV1 == <<"/", "v", "1">>
S_slashV1Slash == <<"/", "v", "1", "/">>
S_slashMcp == <<"/", "m", "c", "p">>
S_slashHealth == <<"/", "h", "e", "a", "l", "t", "h">>

\* s.indexOf(sub) + 1: the place of the first occurrence, 0 when there is none
IndexOf(s, sub) ==
    IF Includes(s, sub)
    THEN CHOOSE i \in 1..(Len(s) - Len(sub) + 1) :
             /\ SubSeq(s, i, i + Len(sub) - 1) = sub
             /\ \A j \in 1..(i - 1) : SubSeq(s, j, j + Len(sub) - 1) # sub
    ELSE 0

\* s.replace(/sub.*$/, ""): s is cut at the first occurrence of sub
CutFrom(s, sub) == IF IndexOf(s, sub) = 0 THEN s ELSE SubSeq(s, 1, IndexOf(s, sub) - 1)

\* s.replace(/suffix$/, "")
StripSuffix(s, suffix) ==
    IF Len(s) >= Len(suffix) /\ SubSeq(s, Len(s) - Len(suffix) + 1, Len(s)) = suffix
    THEN SubSeq(s, 1, Len(s) - Len(suffix))
    ELSE s

\* this.healthCheckURL of a ClusterAIProvider whose base URL is cleanBaseURL
healthCheckURL(cleanBaseURL) ==
    StripSuffix(CutFrom(cleanBaseURL, S_slashV1), S_slashMcp) \o S_slashHealth

\* getClusterAIHealthURL(), baseURL being getClusterAIConfig().baseURL
getClusterAIHealthURL(baseURL) ==
    StripTrailingSlash(CutFrom(baseURL, S_slashV1Slash)) \o S_slashHealth

\* checkHealth(): the URL is fetched; a failure of the fetch answers false
CheckHealth ==
    /\ Ready
    /\ aiCall.pc = "idle"
    /\ aiProviderInstance.variant = "cluster"
    /\ \E ok \in BOOLEAN :
           ret' = [None EXCEPT !.op = "checkHealth", !.ai = aiProviderInstance,
                               !.key = healthCheckURL(aiProviderInstance.baseURL),
                               !.val = JBool(ok)]
    /\ UNCHANGED <<redisUrl, clientMode, db, env, providerInstance, now, calls, build,
                   aiProviderInstance, aiCall>>

\* getClusterAIHealthURL() of the service-discovery module of the build
GetClusterAIHealthURL ==
    /\ Ready
    /\ aiCall.pc = "idle"
    /\ ret' = [None EXCEPT !.op = "getClusterAIHealthURL",
                           !.val = JStr(getClusterAIHealthURL(
                                            IF build.discovery = "v1"
                                            THEN getClusterAIConfig(env)
                                            ELSE getClusterAIConfigPath(env)))]
    /\ UNCHANGED <<redisUrl, clientMode, db, env, providerInstance, now, calls, build,
                   aiProviderInstance, aiCall>>

\* the configurations tried: the cluster backend behind every combination of
\* the variables its base URL is computed from, with and without a key, and
\* the OpenAI backend with and without its key
S_override == <<"h", "t", "t", "p", ":", "/", "/", "o", "/">>
S_host == <<"1", "0", ".", "0", ".", "0", ".", "1">>
S_port == <<"4", "4", "3">>
S_endpoint == <<"h", "t", "t", "p", "s", ":", "/", "/", "e">>
S_api == <<"/", "a", "p", "i">>
ClusterEnvs ==
    { [NoEnv EXCEPT !.CLUSTER_AI_ENABLED = S_true,
                    !.CLUSTER_AI_SERVICE_URL = override,
                    !.KUBERNETES_SERVICE_HOST = host,
                    !.KUBERNETES_SERVICE_PORT = port,
                    !.CLUSTER_AI_ENDPOINT = ingress[1],
                    !.CLUSTER_AI_PATH = ingress[2],
                    !.CLUSTER_AI_SERVICE = service[1],
                    !.CLUSTER_AI_NAMESPACE = service[2],
                    !.CLUSTER_AI_PORT = service[3],
                    !.CLUSTER_AI_API_KEY = key] :
        override \in {<<>>, S_override}, host \in {<<>>, S_host}, port \in {<<>>, S_port},
        ingress \in {<<<<>>, <<>>>>, <<S_endpoint, <<>>>>, <<S_endpoint, S_api>>},
        service \in {<<<<>>, <<>>, <<>>>>, <<<<"s">>, <<"n">>, <<"9">>>>},
        key \in {<<>>, S_key} }
OpenAIEnvs ==
    { [NoEnv EXCEPT !.AI_PROVIDER = S_openai, !.OPENAI_API_KEY = key] : key \in {<<>>, S_key} }

\* a process that has not yet used the AI backend
InitAI ==
    /\ redisUrl = <<>>
    /\ clientMode = "none"
    /\ db = EmptyDb
    /\ ret = None
    /\ env \in ClusterEnvs \cup OpenAIEnvs
    /\ providerInstance = "null"
    /\ now = 0
    /\ calls = NoCalls
    /\ build \in Builds
    /\ aiProviderInstance = NoAI
    /\ aiCall = NoAICall

NextAI ==
    \/ GetAIProvider
    \/ GenerateContent \/ GenerateContentStream \/ GenerateWithFunctions
    \/ BackendAnswers \/ StreamChunk \/ StreamEnd \/ BackendFails
    \/ TimeoutFires \/ TransportTimeout
    \/ CheckHealth \/ GetClusterAIHealthURL
    \/ Resume

SpecAI == InitAI /\ [][NextAI]_vars

\* the timers of the runtime and of the client fire, and the caller continues;
\* nothing obliges the backend to answer
SpecAILive ==
    SpecAI /\ WF_vars(TimeoutFires) /\ WF_vars(TransportTimeout) /\ WF_vars(Resume)

----------------------------------------------------------------------------
(* The base URL of the cluster backend                                     *)

\* the URL belongs to the tier the environment selects: the override, else
\* the service-DNS name when KUBERNETES_SERVICE_HOST is present, else the ingress
InTier(url, e) ==
    IF e.CLUSTER_AI_SERVICE_URL # <<>>
    THEN url \in {e.CLUSTER_AI_SERVICE_URL, StripTrailingSlash(e.CLUSTER_AI_SERVICE_URL)}
    ELSE IF e.KUBERNETES_SERVICE_HOST # <<>>
    THEN StartsWith(url, S_http \o TextOr(e.CLUSTER_AI_SERVICE, S_mcpApiServer) \o <<".">>
                         \o TextOr(e.CLUSTER_AI_NAMESPACE, S_aiInfrastructure)
                         \o S_svcClusterLocal)
    ELSE StartsWith(url, TextOr(e.CLUSTER_AI_ENDPOINT, S_ingress)
                         \o TextOr(e.CLUSTER_AI_PATH, S_mcp))

\* C15: the base URL of a cluster backend is the override URL when
\* CLUSTER_AI_SERVICE_URL is set, otherwise the service-DNS URL of the service
\* name and the namespace when the cluster-runtime marker is present, otherwise
\* the ingress URL of CLUSTER_AI_ENDPOINT and CLUSTER_AI_PATH; both for the
\* provider the factory constructs and for the provider's own detection.
C15_ThreeTierPriority ==
    /\ InTier(detectBaseURL(env), env)
    /\ aiProviderInstance.variant = "cluster" => InTier(aiProviderInstance.baseURL, env)

----------------------------------------------------------------------------
(* The errors of the cluster backend                                       *)

\* the three clarified errors, as the caller sees them
IsTimeoutError(error) == error \in {NewError(S_timeout60), NewError(S_timeout120)}
IsModelNotFoundError(error) ==
    /\ error.origin = "provider"
    /\ StartsWith(error.message, S_modelNotFound)
IsUnavailableError(error) == error = NewError(S_serviceUnavailable)

\* what the failure was: status 404 or a message that says so; status 503,
\* a refused connection or a message that says so
MatchesNotFound(error) ==
    error.status = 404 \/ Includes(error.message, S_notFound) \/ Includes(error.message, S_404)
MatchesUnavailable(error) ==
    \/ error.status = 503
    \/ error.code = "ECONNREFUSED"
    \/ Includes(error.message, S_unavailable)

\* a call on the cluster backend failed by its timer, by the client or by the backend
ClusterCallFailed ==
    /\ ret.op \in AIOps
    /\ ret.ai.variant = "cluster"
    /\ ret.out = "throw"
    /\ ret.cause \in {"backend", "credential", "transport", "race", "abort"}

\* C16: a failed call of generateContent, generateContentStream or
\* generateWithFunctions on the cluster backend throws the timeout error when
\* its timer fired, the model-not-found error when the failure has status 404
\* or a matching message, the service-unavailable error when it has status 503,
\* code ECONNREFUSED or a matching message, and the very error of the backend
\* in every other case.
C16_ErrorCategories ==
    ClusterCallFailed =>
        IF ret.cause \in {"race", "abort"} THEN IsTimeoutError(ret.error)
        ELSE IF MatchesNotFound(ret.raised) THEN IsModelNotFoundError(ret.error)
        ELSE IF MatchesUnavailable(ret.raised) THEN IsUnavailableError(ret.error)
        ELSE ret.error = ret.raised

----------------------------------------------------------------------------
(* The timeouts of the cluster backend                                     *)

\* a call on the cluster backend is in flight
ClusterCallPending ==
    /\ aiCall.pc # "idle"
    /\ aiProviderInstance.variant = "cluster"

\* the call has ended: the backend settled it, or the caller got the timeout error
ClusterCallEnded ==
    /\ aiCall.pc = "idle"
    /\ ret.op \in AIOps
    /\ \/ ret.cause \in {"answer", "shape", "backend", "credential"}
       \/ ret.out = "throw" /\ IsTimeoutError(ret.error)

\* C17: every call on the cluster backend ends: when the backend does not
\* settle it, generateContent and generateWithFunctions fail with the timeout
\* error of their timeout race and generateContentStream with the timeout
\* error of its aborted request, also while chunks are being consumed.
C17_EveryCallTimesOut == ClusterCallPending ~> ClusterCallEnded

----------------------------------------------------------------------------
(* Failures inside the analytics functions                                 *)

\* every count of the snapshot is 0 and every collection empty
IsZeroed(snapshot) ==
    /\ ObjGet(snapshot, S_totalVisitors) = JNum(0)
    /\ ObjGet(snapshot, S_totalQueries) = JNum(0)
    /\ ObjGet(snapshot, S_activeUsers24h) = JNum(0)
    /\ ObjGet(snapshot, S_deviceStats) = JObj(<<>>)
    /\ ObjGet(snapshot, S_countryStats) = JObj(<<>>)
    /\ ObjGet(snapshot, S_recentVisitors) = JArr(<<>>)

\* C18: trackEvent and getAnalyticsData never throw: whether the construction
\* of the provider, the existence check or the batch failed, trackEvent
\* resolves with undefined, and getAnalyticsData resolves, with the zeroed
\* snapshot when the construction or the batch failed.
C18_AnalyticsNeverThrow ==
    /\ ret.op = "trackEvent" => ret.out = "return" /\ ret.val = JUndefined
    /\ ret.op = "getAnalyticsData" =>
           /\ ret.out = "return"
           /\ ret.cause \in {"construction", "batch"} => IsZeroed(ret.val)

\* a report whose batch failed while the store holds visitors
C18_Witness ==
    /\ ret.op = "getAnalyticsData"
    /\ ret.cause = "batch"
    /\ ret.report.visitorIds # <<>>
    /\ ret.out = "return"
    /\ IsZeroed(ret.val)

----------------------------------------------------------------------------
(* Missing credentials and malformed responses                             *)

\* C19: a provider that was handed back by the factory never fails a later
\* generate call because its credential is missing: a missing credential
\* makes the construction throw.
C19_FailsAtConstructionOnly ==
    ret.op \in AIOps => ret.cause # "credential"

\* C20: when the OpenAI-compatible or the cluster backend answers without a
\* message, or with a tool call whose arguments are not valid JSON,
\* generateContent returns the empty text and generateWithFunctions the result
\* without function calls and without text; neither throws.
C20_MalformedIsEmpty ==
    (ret.op \in {"generateContent", "generateWithFunctions"} /\ ret.cause = "shape") =>
        /\ ret.out = "return"
        /\ ret.val = IF ret.op = "generateContent" THEN JStr(<<>>)
                     ELSE FunctionCallResult(<<>>, <<>>)

----------------------------------------------------------------------------
(* getRepoFileTree: the file tree of a repository without its noise paths  *)

S_git == <<".", "g", "i", "t">>
S_nodeModules == <<"n", "o", "d", "e", "_", "m", "o", "d", "u", "l", "e", "s">>
S_next == <<".", "n", "e", "x", "t">>
S_idx == <<".", "i", "d", "x">>
S_vscode == <<".", "v", "s", "c", "o", "d", "e">>
S_dsStore == <<".", "D", "S", "_", "S", "t", "o", "r", "e">>
S_slash == <<"/">>

MaxNodes == 3

\* s.endsWith(suffix)
EndsWith(s, suffix) ==
    /\ Len(s) >= Len(suffix)
    /\ SubSeq(s, Len(s) - Len(suffix) + 1, Len(s)) = suffix

\* path.startsWith(dir + "/") || path === dir
IsOrUnder(path, dir) == StartsWith(path, dir \o S_slash) \/ path = dir

\* a plausible slip: the directory name is tested as a bare prefix
HiddenReason_barePrefix(path) ==
    IF StartsWith(path, S_git) THEN "Git System Directory"
    ELSE IF StartsWith(path, S_nodeModules) THEN "Dependencies"
    ELSE IF StartsWith(path, S_next) THEN "Next.js Build Output"
    ELSE IF StartsWith(path, S_idx) THEN "Project Index"
    ELSE IF StartsWith(path, S_vscode) THEN "VS Code Configuration"
    ELSE IF EndsWith(path, S_dsStore) THEN "macOS System File"
    ELSE ""

\* the callback of filter: the reason a node is hidden for, "" for a node that is kept
HiddenReason(path) ==
    IF IsOrUnder(path, S_git) THEN "Git System Directory"
    ELSE IF IsOrUnder(path, S_nodeModules) THEN "Dependencies"
    ELSE IF IsOrUnder(path, S_next) THEN "Next.js Build Output"
    ELSE IF IsOrUnder(path, S_idx) THEN "Project Index"
    ELSE IF IsOrUnder(path, S_vscode) THEN "VS Code Configuration"
    ELSE IF EndsWith(path, S_dsStore) THEN "macOS System File"
    ELSE ""

\* data.tree.filter(callback): the nodes kept, in their order
RECURSIVE FilteredTree(_)
FilteredTree(nodes) ==
    IF Len(nodes) = 0 THEN <<>>
    ELSE (IF HiddenReason(Head(nodes).path) = "" THEN <<Head(nodes)>> ELSE <<>>)
         \o FilteredTree(Tail(nodes))

\* hiddenFiles as the callback has filled it when filter returns
RECURSIVE HiddenFiles(_)
HiddenFiles(nodes) ==
    IF Len(nodes) = 0 THEN <<>>
    ELSE (IF HiddenReason(Head(nodes).path) = "" THEN <<>>
          ELSE <<[path |-> Head(nodes).path, reason |-> HiddenReason(Head(nodes).path)]>>)
         \o HiddenFiles(Tail(nodes))

\* the paths tried: the noise directories themselves, paths under them, paths
\* that only begin like them, a noise directory further down, .DS_Store files
\* and ordinary files
TreePaths ==
    { S_git, <<".", "g", "i", "t", "/", "c", "o", "n", "f", "i", "g">>, <<".", "g", "i", "t", "h", "u", "b", "/", "c", "i", ".", "y", "m", "l">>, <<"n", "o", "d", "e", "_", "m", "o", "d", "u", "l", "e", "s", "/", "a", ".", "j", "s">>, <<"s", "r", "c", "/", "n", "o", "d", "e", "_", "m", "o", "d", "u", "l", "e", "s", "/", "a", ".", "j", "s">>,
      S_next, <<".", "i", "d", "x", "/", "d", "e", "v", ".", "n", "i", "x">>, <<".", "v", "s", "c", "o", "d", "e">>, <<"d", "o", "c", "s", "/", ".", "D", "S", "_", "S", "t", "o", "r", "e">>, <<"s", "r", "c", "/", "a", ".", "t", "s">>, <<"R", "E", "A", "D", "M", "E", ".", "m", "d">> }
FileNodes == { [path |-> p, type |-> "blob"] : p \in TreePaths }
RECURSIVE TreesOfLength(_)
TreesOfLength(n) ==
    IF n = 0 THEN {<<>>}
    ELSE { <<node>> \o tree : node \in FileNodes, tree \in TreesOfLength(n - 1) }
Trees == UNION { TreesOfLength(n) : n \in 0..MaxNodes }

\* getRepoFileTree(owner, repo, branch): a failed branch lookup is ignored
\* (the branch name is used as the sha), a failed tree request rejects the call
GetRepoFileTree ==
    /\ Ready
    /\ \E branchFound \in BOOLEAN, treeFound \in BOOLEAN, fetched \in Trees :
           ret' = IF treeFound
                  THEN [None EXCEPT !.op = "getRepoFileTree",
                                    !.q = IF branchFound THEN <<"s", "h", "a">> ELSE <<"m", "a", "i", "n">>,
                                    !.fetched = fetched,
                                    !.tree = FilteredTree(fetched),
                                    !.hiddenFiles = HiddenFiles(fetched)]
                  ELSE [None EXCEPT !.op = "getRepoFileTree",
                                    !.q = IF branchFound THEN <<"s", "h", "a">> ELSE <<"m", "a", "i", "n">>,
                                    !.out = "throw"]
    /\ UNCHANGED <<redisUrl, clientMode, db, env, providerInstance, now, calls, build,
                   aiProviderInstance, aiCall>>

\* a process that browses repositories
InitTree ==
    /\ redisUrl = <<>>
    /\ clientMode = "none"
    /\ db = EmptyDb
    /\ ret = None
    /\ env = NoEnv
    /\ providerInstance = "null"
    /\ now = 0
    /\ calls = NoCalls
    /\ build = DefaultBuild
    /\ aiProviderInstance = NoAI
    /\ aiCall = NoAICall

NextTree == GetRepoFileTree \/ Resume

SpecTree == InitTree /\ [][NextTree]_vars

----------------------------------------------------------------------------
(* The health-check URL and the two computations of the base URL            *)

\* nothing of the cluster endpoint is configured and the process runs outside a cluster
DefaultExternal ==
    /\ env.CLUSTER_AI_SERVICE_URL = <<>>
    /\ env.KUBERNETES_SERVICE_HOST = <<>>
    /\ env.CLUSTER_AI_ENDPOINT = <<>>
    /\ env.CLUSTER_AI_PATH = <<>>

\* C25: in the default external configuration the health check of the
\* provider fetches <ingress>/health and getClusterAIHealthURL() returns
\* <ingress>/health, the URL the migration guide names.
C25_HealthURL ==
    DefaultExternal =>
        /\ ret.op = "checkHealth" => ret.key = S_ingress \o S_slashHealth
        /\ ret.op = "getClusterAIHealthURL" => ret.val = JStr(S_ingress \o S_slashHealth)

\* C29: the base URL of the provider the factory constructs (computed by
\* getClusterAIConfig()) is the base URL a provider constructed without a URL
\* computes by detectBaseURL(), whatever the environment holds.
C29_ConfigEqualsDetected ==
    aiProviderInstance.variant = "cluster" =>
        aiProviderInstance.baseURL = ClusterAIProvider(<<>>, <<>>, <<>>, env).inst.baseURL

----------------------------------------------------------------------------
(* The singleton slots after a construction that throws                    *)

\* C30: a getCacheProvider() or getAIProvider() whose factory throws found
\* the slot empty, leaves it empty and hands back no instance; every get that
\* finds the slot empty runs the factory on the configuration of that moment,
\* so that a get made after the configuration was corrected returns a provider
\* without a reset in between.
C30_ThrowLeavesSlotEmpty ==
    [][ /\ (CacheGetStep /\ ret'.out = "throw") =>
               /\ providerInstance = "null" /\ providerInstance' = "null"
               /\ ret'.cache.variant = "null"
        /\ (AIGetStep /\ ret'.out = "throw") =>
               /\ aiProviderInstance = NoAI /\ aiProviderInstance' = NoAI
               /\ ret'.ai = NoAI
        /\ (CacheGetStep /\ providerInstance = "null") =>
               ret'.made /\ ret'.out = createCacheProvider(env).out
        /\ (AIGetStep /\ aiProviderInstance = NoAI) =>
               ret'.made /\ ret'.out = BuildFactory(build, env).out
      ]_vars

\* the OpenAI backend is named, its key is missing: the get threw and the
\* slot is empty
C30_Witness ==
    /\ ret.op = "getAIProvider" /\ ret.out = "throw" /\ ret.made
    /\ ToLowerCase(env.AI_PROVIDER) = S_openai /\ env.OPENAI_API_KEY = <<>> /\ ~FlagOn
    /\ aiProviderInstance = NoAI

----------------------------------------------------------------------------
(* The partition of the file tree                                          *)

NoiseDirs == {S_git, S_nodeModules, S_next, S_idx, S_vscode}

\* the path is a noise directory of the repository root, lies under one, or
\* is a .DS_Store file
IsNoise(path) ==
    \/ \E dir \in NoiseDirs : path = dir \/ StartsWith(path, dir \o S_slash)
    \/ EndsWith(path, S_dsStore)

\* how often x occurs in the sequence q
Occurrences(q, x) == Cardinality({i \in 1..Len(q) : q[i] = x})

\* q is what remains of full when some of its elements are removed
RECURSIVE IsSubsequence(_, _)
IsSubsequence(q, full) ==
    IF Len(q) = 0 THEN TRUE
    ELSE IF Len(full) = 0 THEN FALSE
    ELSE IF Head(q) = Head(full) THEN IsSubsequence(Tail(q), Tail(full))
    ELSE IsSubsequence(q, Tail(full))

\* C26: a getRepoFileTree that returns splits the fetched nodes in two: each
\* node is in the returned tree or in hiddenFiles, not in both; no path of
\* the returned tree is .git, node_modules, .next, .idx or .vscode, lies
\* under one of them or ends with .DS_Store; every hidden path is such a
\* path; the kept nodes stand in the order in which they were fetched.
C26_TreePartition ==
    (ret.op = "getRepoFileTree" /\ ret.out = "return") =>
        /\ Len(ret.tree) + Len(ret.hiddenFiles) = Len(ret.fetched)
        /\ \A node \in FileNodes :
               Occurrences(ret.fetched, node)
                   = IF IsNoise(node.path)
                     THEN Cardinality({i \in 1..Len(ret.hiddenFiles) :
                                           ret.hiddenFiles[i].path = node.path})
                     ELSE Occurrences(ret.tree, node)
        /\ \A i \in 1..Len(ret.tree) : ~IsNoise(ret.tree[i].path)
        /\ \A i \in 1..Len(ret.hiddenFiles) : IsNoise(ret.hiddenFiles[i].path)
        /\ IsSubsequence(ret.tree, ret.fetched)

\* a tree of which one node is hidden, one kept although its path begins
\* like a noise directory, and one kept although a noise directory lies on its path
C26_Witness ==
    /\ ret.op = "getRepoFileTree" /\ ret.out = "return"
    /\ Len(ret.hiddenFiles) = 1 /\ ret.hiddenFiles[1].path = S_git
    /\ Len(ret.tree) = 2
    /\ ret.tree[1].path = <<".", "g", "i", "t", "h", "u", "b", "/", "c", "i", ".", "y", "m", "l">>
    /\ ret.tree[2].path = <<"s", "r", "c", "/", "n", "o", "d", "e", "_", "m", "o", "d", "u", "l", "e", "s", "/", "a", ".", "j", "s">>

----------------------------------------------------------------------------
(* A command of RedisProvider in flight. The method sends its command and   *)
(* awaits the client's promise; the backend answers, rejects, or stays      *)
(* silent. Two things can end the wait on a silent backend: the 3-second    *)
(* timer a method races its command against (get and setex of              *)
(* redis-provider.ts) and the client's commandTimeout option (every        *)
(* command of redis-provider.ts); the earlier copy of the provider has     *)
(* neither. build.cache names the copy in use.                             *)

CacheBuilds == {[DefaultBuild EXCEPT !.cache = c] : c \in {"guarded", "earlier"}}

GuardOps == {"get", "set", "setex", "del", "exists", "hgetall", "smembers", "sadd", "hset"}

\* the key a method of the model is called with
KeysOfOp(op) ==
    CASE op \in {"get", "set", "setex"} -> {K_value}
      [] op \in {"del", "exists"} -> {K_value, K_set, K_hash}
      [] op \in {"smembers", "sadd"} -> {K_set}
      [] OTHER -> {K_hash}

\* the method races its command against its own timer
RacesTimer(b, op) == b.cache = "guarded" /\ op \in {"get", "setex"}

\* the client is constructed with commandTimeout
HasCommandTimeout(b) == b.cache = "guarded"

\* what the method hands back when the promise of its command settles
MethodResult(call, d, order, mode) ==
    CASE call.op = "get" -> RedisGet(d, call.key, mode)
      [] call.op = "set" -> RedisSet(d, call.key, call.arg, 0, mode)
      [] call.op = "setex" -> RedisSetex(d, call.key, TTL_FILE, call.arg, mode)
      [] call.op = "del" -> RedisDel(d, call.key, mode)
      [] call.op = "exists" -> RedisExists(d, call.key, mode)
      [] call.op = "hgetall" -> RedisHgetall(d, call.key, mode)
      [] call.op = "smembers" -> RedisSmembers(d, call.key, order, mode)
      [] call.op = "sadd" -> RedisSadd(d, call.key, {M_one}, mode)
      [] OTHER -> RedisHset(d, call.key, << <<F_text, call.arg>> >>, mode)

\* the method returns: r is [db, out, val]
CommandSettles(call, r, mode, cause) ==
    /\ CountersWithin(r.db)
    /\ db' = r.db
    /\ ret' = [None EXCEPT !.op = call.op, !.key = call.key, !.arg = call.arg, !.mode = mode,
                           !.before = db, !.out = r.out, !.val = r.val, !.cause = cause]
    /\ calls' = [calls EXCEPT !.redis = NoCommand]
    /\ UNCHANGED <<redisUrl, clientMode, env, providerInstance, now, build, aiProviderInstance, aiCall>>

\* the wait ends without an answer; the backend, which accepted the command,
\* may have carried it out or not
CommandAbandoned(call, cause) ==
    \E applied \in BOOLEAN, order \in Orderings(SetOf(db, K_set)) :
        CommandSettles(call,
                       [MethodResult(call, db, order, "silent") EXCEPT
                           !.db = IF applied THEN MethodResult(call, db, order, "ok").db ELSE db],
                       "silent", cause)

\* a method is called and sends its command
SendCommand ==
    /\ Ready
    /\ calls.redis.pc = "idle"
    /\ \E op \in GuardOps : \E key \in KeysOfOp(op), value \in {V_num, V_quote} :
           calls' = [calls EXCEPT !.redis =
                        [pc |-> "sent", op |-> op, key |-> key,
                         arg |-> IF op \in {"set", "setex", "hset"} THEN value ELSE JNull]]
    /\ UNCHANGED <<redisUrl, clientMode, db, ret, env, providerInstance, now, build, aiProviderInstance, aiCall>>

\* the backend answers
BackendReplies ==
    /\ calls.redis.pc = "sent"
    /\ \E order \in Orderings(SetOf(db, K_set)) :
           CommandSettles(calls.redis, MethodResult(calls.redis, db, order, "ok"), "ok", "reply")

\* the backend, or the connection, rejects the command
BackendRejects ==
    /\ calls.redis.pc = "sent"
    /\ CommandSettles(calls.redis, MethodResult(calls.redis, db, <<>>, "reject"), "reject", "reject")

\* the 3-second timer of the method wins the race
RaceTimeout ==
    /\ calls.redis.pc = "sent"
    /\ RacesTimer(build, calls.redis.op)
    /\ CommandAbandoned(calls.redis, "race")

\* the client gives the command up after commandTimeout
CommandTimeout ==
    /\ calls.redis.pc = "sent"
    /\ HasCommandTimeout(build)
    /\ CommandAbandoned(calls.redis, "commandTimeout")

InitGuard ==
    /\ redisUrl = DocStandaloneUrl
    /\ clientMode = "cluster"
    /\ db = EmptyDb
    /\ ret = None
    /\ env = RedisEnv
    /\ providerInstance = "redis"
    /\ now = 0
    /\ calls = NoCalls
    /\ build \in CacheBuilds
    /\ aiProviderInstance = NoAI
    /\ aiCall = NoAICall

NextGuard ==
    \/ SendCommand \/ BackendReplies \/ BackendRejects
    \/ RaceTimeout \/ CommandTimeout \/ Resume

SpecGuard == InitGuard /\ [][NextGuard]_vars

\* a timer that is armed fires unless the wait has ended before; the caller
\* takes a result that is there. The backend owes nothing.
SpecGuardLive ==
    SpecGuard /\ WF_vars(RaceTimeout) /\ WF_vars(CommandTimeout) /\ WF_vars(Resume)

\* a command is in flight
CommandPending == calls.redis.pc = "sent"

\* the method has returned; what it returns after a wait that ended without
\* an answer is its cache-miss value
CommandEnded ==
    /\ calls.redis.pc = "idle"
    /\ ret.op \in GuardOps
    /\ ret.out = "return"
    /\ ret.mode = "silent" => ret.val = DegradedValue(ret.op)

\* C21: a method of RedisProvider whose command the backend accepts and never
\* answers does not leave its caller waiting: every call of get, set, setex,
\* del, exists, hgetall, smembers, sadd or hset eventually returns, and
\* returns its cache-miss value when no answer came.
C21_NoCallerWaitsForever == CommandPending ~> CommandEnded

\* the same for the provider of redis-provider.ts alone
C21_GuardedCopyReturns == (CommandPending /\ build.cache = "guarded") ~> CommandEnded

\* a wait ended without an answer, by the timer of the method and by the
\* commandTimeout of the client
C21_Witness ==
    /\ ret.op = "set"
    /\ ret.mode = "silent"
    /\ ret.cause = "commandTimeout"
    /\ ret.val = JUndefined

\* a trackEvent call ran its batch for a visitor whose record was stored
TrackedExisting ==
    /\ ret.op = "trackEvent" /\ ret.track.pc = "exec"
    /\ HashOf(ret.before, VisitorKey(ret.track.id)) # <<>>

\* what a trackEvent call for a stored visitor must leave alone: the country
\* (the device) when it supplied none, firstSeen, userAgent, the records of the
\* other visitors and, for a visit that supplied neither, the counters and
\* the visitor set
FrameKept ==
    LET id == ret.track.id
    IN  /\ ret.track.country = <<>> =>
               StoredField(db, id, S_country) = StoredField(ret.before, id, S_country)
        /\ ret.track.device = <<>> =>
               StoredField(db, id, S_device) = StoredField(ret.before, id, S_device)
        /\ StoredField(db, id, S_firstSeen) = StoredField(ret.before, id, S_firstSeen)
        /\ StoredField(db, id, S_userAgent) = StoredField(ret.before, id, S_userAgent)
        /\ \A other \in VisitorIds \ {id} :
               HashOf(db, VisitorKey(other)) = HashOf(ret.before, VisitorKey(other))
        /\ (ret.track.eventType = "visit" /\ ret.track.country = <<>> /\ ret.track.device = <<>>) =>
               /\ db.str = ret.before.str
               /\ db.set = ret.before.set
               /\ StoredField(db, id, S_queryCount) = StoredField(ret.before, id, S_queryCount)

\* C23: a trackEvent call for a visitor whose record is stored leaves the
\* stored country (device) as it was when it supplied none, leaves firstSeen,
\* userAgent and every other visitor's record as they were, and, when it is a
\* visit that supplied neither, changes nothing but lastSeen.
C23_ExistingVisitorFrame == TrackedExisting => FrameKept

\* the same for the calls whose existence check found the record
C23_FrameWhenFound == (TrackedExisting /\ ret.track.exists) => FrameKept

----------------------------------------------------------------------------
(* Analytics calls that overlap. Several requests are served at once, by   *)
(* one process or by several replicas of the deployment, each with its own *)
(* connection: the backend runs the commands of a call one round trip at a *)
(* time and those of other calls in between. A step is one round trip: the *)
(* command is carried out at the moment it is answered.                    *)

MaxCalls == 2

TrackSlots == {"track", "second"}

\* the slot a trackEvent call that begins now takes
FreeSlot == IF calls.track.pc = "idle" THEN "track" ELSE "second"

\* trackEvent up to its first await: the clock is read, sadd is queued and the
\* existence check is sent
OverlapBegin ==
    /\ Ready
    /\ providerInstance = "redis"
    /\ calls[FreeSlot].pc = "idle"
    /\ calls.events < MaxCalls
    /\ \E visitorId \in VisitorIds, event \in EventInputs :
           calls' = [calls EXCEPT
                        ![FreeSlot] = [pc |-> "exists", id |-> visitorId,
                                       eventType |-> event.eventType,
                                       country |-> event.country, device |-> event.device,
                                       userAgent |-> event.userAgent, timestamp |-> now,
                                       exists |-> FALSE],
                        !.events = @ + 1,
                        !.queries = IF event.eventType = "query" THEN @ + 1 ELSE @]
    /\ UNCHANGED <<redisUrl, clientMode, db, ret, env, providerInstance, now, build, aiProviderInstance, aiCall>>

\* the existence check of a call settles; the rest of its batch is queued and sent
OverlapExists ==
    /\ Ready
    /\ \E slot \in TrackSlots, mode \in Modes :
           /\ calls[slot].pc = "exists"
           /\ calls' = [calls EXCEPT ![slot].pc = "exec",
                                     ![slot].exists =
                                         RedisExists(db, VisitorKey(calls[slot].id), mode).val.b]
    /\ UNCHANGED <<redisUrl, clientMode, db, ret, env, providerInstance, now, build, aiProviderInstance, aiCall>>

\* the batch of the call in the slot has run: r is [db, out, val] of exec()
OverlapSettles(slot, r, mode) ==
    /\ db' = r.db
    /\ ret' = TrackSettled(calls[slot], db, mode, r.out)
    /\ calls' = [calls EXCEPT ![slot] = NoTrack, !.failed = @ \/ r.out = "throw"]

\* the batch of a call settles; a rejection is caught and the call resolves
OverlapExec ==
    /\ Ready
    /\ \E slot \in TrackSlots, mode \in Modes :
           /\ calls[slot].pc = "exec"
           /\ OverlapSettles(slot, RedisExec(db, TrackBatch(calls[slot]), mode), mode)
    /\ UNCHANGED <<redisUrl, clientMode, env, providerInstance, now, build, aiProviderInstance, aiCall>>

\* getAnalyticsData up to its first await: scard, get and smembers are sent
OverlapReportBegin ==
    /\ Ready
    /\ providerInstance = "redis"
    /\ calls.report.pc = "idle"
    /\ calls' = [calls EXCEPT !.report = [NoReport EXCEPT !.pc = "scard"]]
    /\ UNCHANGED <<redisUrl, clientMode, db, ret, env, providerInstance, now, build, aiProviderInstance, aiCall>>

\* cache.scard("visitors") settles
ReadScard ==
    /\ Ready
    /\ calls.report.pc = "scard"
    /\ \E mode \in Modes :
           calls' = [calls EXCEPT !.report.pc = "get",
                                  !.report.totalVisitors = RedisScard(db, S_visitors, mode).val,
                                  !.report.answered.scard = ~ClientFails(mode)]
    /\ UNCHANGED <<redisUrl, clientMode, db, ret, env, providerInstance, now, build, aiProviderInstance, aiCall>>

\* cache.get("queries:total") settles
ReadTotal ==
    /\ Ready
    /\ calls.report.pc = "get"
    /\ \E mode \in Modes :
           calls' = [calls EXCEPT !.report.pc = "smembers",
                                  !.report.totalQueries = RedisGet(db, S_queriesTotal, mode).val,
                                  !.report.answered.get = ~ClientFails(mode)]
    /\ UNCHANGED <<redisUrl, clientMode, db, ret, env, providerInstance, now, build, aiProviderInstance, aiCall>>

\* the three reads are in: members is what smembers handed back; with no
\* visitor id read the call returns at once
MembersRead(call, members, answered) ==
    IF Len(members) = 0
    THEN /\ ret' = [None EXCEPT !.op = "getAnalyticsData", !.before = db,
                                !.val = EmptySnapshot(call.totalQueries),
                                !.report = [call EXCEPT !.pc = "idle", !.path = "empty",
                                                        !.answered.smembers = answered,
                                                        !.visitors = SetOf(db, S_visitors)]]
         /\ calls' = [calls EXCEPT !.report = NoReport]
    ELSE /\ ret' = ret
         /\ calls' = [calls EXCEPT !.report =
                         [call EXCEPT !.pc = "details",
                                      !.visitorIds = [i \in 1..Len(members) |-> members[i].s],
                                      !.answered.smembers = answered,
                                      !.visitors = SetOf(db, S_visitors)]]

\* cache.smembers("visitors") settles and Promise.all resolves
ReadMembers ==
    /\ Ready
    /\ calls.report.pc = "smembers"
    /\ \E mode \in Modes, order \in Orderings(SetOf(db, S_visitors)) :
           MembersRead(calls.report, RedisSmembers(db, S_visitors, order, mode).val.a,
                       ~ClientFails(mode))
    /\ UNCHANGED <<redisUrl, clientMode, db, env, providerInstance, now, build, aiProviderInstance, aiCall>>

\* trackEvent calls that overlap
NextOverlap == OverlapBegin \/ OverlapExists \/ OverlapExec \/ Tick \/ Resume

SpecOverlap == InitAnalytics /\ [][NextOverlap]_vars

\* trackEvent calls and a getAnalyticsData call that overlap
NextSnapshot ==
    \/ OverlapBegin \/ OverlapExists \/ OverlapExec
    \/ OverlapReportBegin \/ ReadScard \/ ReadTotal \/ ReadMembers \/ ReportDetails
    \/ Tick \/ Resume

SpecSnapshot == InitAnalytics /\ [][NextSnapshot]_vars

\* both calls in flight are for one visitor that has no record, and the
\* existence check of each found none
BothSawAbsent ==
    /\ calls.track.pc = "exec" /\ calls.second.pc = "exec"
    /\ calls.track.id = calls.second.id
    /\ ~calls.track.exists /\ ~calls.second.exists
    /\ HashOf(db, VisitorKey(calls.track.id)) = <<>>

\* C22: two overlapping trackEvent calls for one brand-new visitor whose
\* existence checks both found no record write the same firstSeen, so that
\* the firstSeen stored once both batches ran does not depend on their order.
C22_SameFirstSeen == BothSawAbsent => calls.track.timestamp = calls.second.timestamp

\* the firstSeen and lastSeen stored for a visitor, as numbers
FirstSeenOf(d, visitorId) == IntOfText(StoredField(d, visitorId, S_firstSeen))
LastSeenOf(d, visitorId) == IntOfText(StoredField(d, visitorId, S_lastSeen))

\* C28: every stored visitor record has firstSeen <= lastSeen, also when
\* trackEvent calls for the visitor overlap.
C28_FirstSeenNotAfterLastSeen ==
    \A visitorId \in VisitorIds :
        (/\ StoredField(db, visitorId, S_firstSeen) # <<>>
         /\ StoredField(db, visitorId, S_lastSeen) # <<>>) =>
            FirstSeenOf(db, visitorId) <= LastSeenOf(db, visitorId)

\* the counters of query events: the global one and that of a visitor, 0 when
\* not stored
QueriesTotal(d) ==
    IF S_queriesTotal \in DOMAIN d.str THEN IntOfText(d.str[S_queriesTotal].text) ELSE 0

QueryCountOf(d, visitorId) ==
    IF StoredField(d, visitorId, S_queryCount) = <<>> THEN 0
    ELSE IntOfText(StoredField(d, visitorId, S_queryCount))

RECURSIVE SumQueryCounts(_, _)
SumQueryCounts(d, ids) ==
    IF ids = {} THEN 0
    ELSE LET visitorId == CHOOSE x \in ids : TRUE
         IN  QueryCountOf(d, visitorId) + SumQueryCounts(d, ids \ {visitorId})

\* the trackEvent calls in flight that are query events
QueriesInFlight ==
    Cardinality({slot \in TrackSlots : calls[slot].pc # "idle" /\ calls[slot].eventType = "query"})

\* C27: as long as no batch was rejected, queries:total equals the sum of the
\* visitors' queryCount fields, and both equal the number of trackEvent calls
\* made with eventType 'query' whose batch has run; visits are not counted.
C27_QueryCounters ==
    ~calls.failed =>
        /\ QueriesTotal(db) = SumQueryCounts(db, VisitorIds)
        /\ QueriesTotal(db) = calls.queries - QueriesInFlight

\* a query event and a visit for one visitor overlapped: the batch of the
\* query ran while the visit was in flight, and one query is counted
C27_Witness ==
    /\ ret.op = "trackEvent" /\ ret.track.eventType = "query" /\ ret.out = "return"
    /\ ~calls.failed
    /\ calls.second.pc = "exec" /\ calls.second.eventType = "visit"
    /\ calls.second.id = ret.track.id
    /\ QueriesTotal(db) = 1 /\ QueryCountOf(db, ret.track.id) = 1

\* the counts of a histogram of the snapshot, added up
RECURSIVE SumCounts(_)
SumCounts(pairs) ==
    IF Len(pairs) = 0 THEN 0 ELSE Head(pairs)[2].n + SumCounts(Tail(pairs))

\* the two histograms of a snapshot count the visitors listed in it
HistogramsMatchList(snapshot) ==
    /\ SumCounts(ObjGet(snapshot, S_deviceStats).o) = Len(ObjGet(snapshot, S_recentVisitors).a)
    /\ SumCounts(ObjGet(snapshot, S_countryStats).o) = Len(ObjGet(snapshot, S_recentVisitors).a)

\* C24: in every snapshot getAnalyticsData returns, the deviceStats counts and
\* the countryStats counts each add up to the length of recentVisitors, and
\* that length is totalVisitors.
C24_SnapshotConsistent ==
    ret.op = "getAnalyticsData" =>
        /\ HistogramsMatchList(ret.val)
        /\ Len(ObjGet(ret.val, S_recentVisitors).a) = ObjGet(ret.val, S_totalVisitors).n

\* the histograms alone: they are rebuilt from the records listed
C24_HistogramsConsistent == ret.op = "getAnalyticsData" => HistogramsMatchList(ret.val)

\* C24 for the snapshots whose three reads were all answered
C24_ConsistentWhenAnswered ==
    (/\ ret.op = "getAnalyticsData"
     /\ ret.report.answered = [scard |-> TRUE, get |-> TRUE, smembers |-> TRUE]) =>
        Len(ObjGet(ret.val, S_recentVisitors).a) = ObjGet(ret.val, S_totalVisitors).n

====
